---- MODULE Spec2Model ----
(***************************************************************************)
(* A model of HVB_thermal_analytics: the sensor remapping / layer          *)
(* aggregation of plot_battery_layout, the heat-flux helper, and the       *)
(* interactive session (slider, buttons, layout radio buttons, timer).     *)
(*                                                                         *)
(* Python values are modelled as follows.                                  *)
(*   - a float is a 1-tuple <<v>> of an integer, Fl(v), or the empty tuple *)
(*     NaN (not-a-number): a number never equals NaN;                      *)
(*   - None is the record [none |-> TRUE];                                 *)
(*   - a 2-element tuple or list (num, tag) is a record with a field kind  *)
(*     ("tuple" or "list"): Python's == on them is then TLA+'s = , since   *)
(*     (1, "01") == [1, "01"] is False in Python;                          *)
(*   - a Python list / numpy row is a sequence; Python index i is the      *)
(*     sequence index i + 1.                                               *)
(* The background image coolingplate_edited.png is taken to be present     *)
(* (without it no frame is ever built and the session fails at set-up).    *)
(***************************************************************************)
EXTENDS Integers, Sequences, FiniteSets, TLC

VARIABLES
    hf_args,      \* arguments of a call of calculation_heat_flux
    hf_result,    \* [value |-> its return value], Pending before the call
    pbl_args,     \* arguments of a call of plot_battery_layout
    pbl_result,   \* what visualization.plot_battery_layout built
    hvb_result,   \* what thermal_dynamics_HVB.plot_battery_layout built
    impl,         \* the module whose interactive_battery_layout runs
    phase,        \* "called", "running" or "failed" (set-up raised)
    env,          \* data, sensor_identifiers, ..., the coolant series, total_frames
    lists,        \* the list objects: the caller's and the one a handler loaded
    order_ref,    \* the list object the closure variable custom_sensor_order refers to
    slider_val,   \* slider.val
    playing,      \* playing[0]
    frame,        \* what the figure shows: the heat maps and the trend lines
    last_event,   \* the handler that ran last, what it read, what it raised
    \* the GUI event loop of plt.show(), at the grain of single statements
    pending,      \* the events that wait in the queue of the event loop
    stack,        \* the handler activations in progress, innermost last
    \* cache_data
    cache_fs,     \* the clock, the source file and the cache file
    cache_call,   \* the last call of a wrapped function and what it did
    \* the extractors of data_extraction.py and thermal_dynamics_HVB.py
    ex_args,      \* what the measurement file or the data base holds
    ex_result     \* what the extractors returned or raised

fluxVars == <<hf_args, hf_result>>

frameVars == <<pbl_args, pbl_result, hvb_result>>

sessionVars ==
    <<impl, phase, env, lists, order_ref, slider_val, playing, frame, last_event>>

loopVars == <<pending, stack>>

cacheVars == <<cache_fs, cache_call>>

extractVars == <<ex_args, ex_result>>

vars == <<fluxVars, frameVars, sessionVars, loopVars, cacheVars, extractVars>>

NaN == <<>>

Fl(v) == <<v>>

None == [none |-> TRUE]

Pending == [pending |-> TRUE]

(***************************************************************************)
(* Bounds of the model.                                                    *)
(***************************************************************************)
MaxLayers == 2      \* strings_count ranges over 1..MaxLayers
NumSensors == 4     \* rows of the raw matrix
NumFrames == 2      \* columns of the raw matrix
MaxExtra == 2       \* how far a layout may exceed the total span
MaxFlow == 2        \* |flow| ranges over 0..MaxFlow
MaxTemp == 5        \* coolant temperatures range over 0..MaxTemp

(***************************************************************************)
(* Python helpers.                                                         *)
(***************************************************************************)
Min(a, b) == IF a < b THEN a ELSE b

Max(a, b) == IF a > b THEN a ELSE b

SetMin(S) == CHOOSE x \in S : \A y \in S : x <= y

SetMax(S) == CHOOSE x \in S : \A y \in S : x >= y

\* seq[start:end] for 0 <= start
PySlice(seq, start, end) == SubSeq(seq, start + 1, Min(end, Len(seq)))

IsNaN(x) == x = NaN

\* float arithmetic: not-a-number propagates
FSub(a, b) == IF IsNaN(a) \/ IsNaN(b) THEN NaN ELSE Fl(a[1] - b[1])

FMul(a, b) == IF IsNaN(a) \/ IsNaN(b) THEN NaN ELSE Fl(a[1] * b[1])

\* x == 0 on floats: False for not-a-number
FIsZero(x) == x = Fl(0)

(***************************************************************************)
(* calculation_heat_flux (data_extraction.py).  The proportions pw and pg  *)
(* are 0.5: they are kept as PwNum / PDen and PgNum / PDen.  A flow of f   *)
(* stands for f / 60000 m3/s (f L/min) and a result of q for q / 60000 W:  *)
(* the function is linear in the flow, so the scale is exact.              *)
(***************************************************************************)
cw == 4186

cg == 3350

PwNum == 1

PgNum == 1

PDen == 2

rho_w == 1000

rho_g == 1070

\* pw * cw * rho_w + pg * cg * rho_g
HeatCoefficient == (PwNum * cw * rho_w + PgNum * cg * rho_g) \div PDen

\* a variant without the zero test
HeatFluxNoGuard(volumenstrom, temp_inlet, temp_outlet) ==
    FMul(FMul(volumenstrom, FSub(temp_outlet, temp_inlet)), Fl(HeatCoefficient))

\* a variant with inlet - outlet
HeatFluxReversed(volumenstrom, temp_inlet, temp_outlet) ==
    LET delta_t == FSub(temp_inlet, temp_outlet)
    IN  IF FIsZero(volumenstrom) \/ FIsZero(delta_t)
        THEN Fl(0)
        ELSE FMul(FMul(volumenstrom, delta_t), Fl(HeatCoefficient))

calculation_heat_flux(volumenstrom, temp_inlet, temp_outlet) ==
    LET delta_t == FSub(temp_outlet, temp_inlet)
    IN  IF FIsZero(volumenstrom) \/ FIsZero(delta_t)
        THEN Fl(0)
        ELSE FMul(FMul(volumenstrom, delta_t), Fl(HeatCoefficient))

(***************************************************************************)
(* plot_battery_layout: the grid construction (visualization.py 23-51,     *)
(* thermal_dynamics_HVB.py 221-266).                                       *)
(*   data               sequence of rows, each a sequence of samples       *)
(*   sensor_identifiers sequence of records [id, name]                     *)
(*   custom_sensor_order sequence of (num, tag) entries                    *)
(***************************************************************************)
GridRows == 4

ColsPerModule == 4

TupleId(n, t) == [kind |-> "tuple", num |-> n, tag |-> t]

ListId(n, t) == [kind |-> "list", num |-> n, tag |-> t]

\* tuple(x)
AsTuple(x) == [x EXCEPT !.kind = "tuple"]

\* number of columns of the raw matrix (data.shape[1])
Shape1(data) == IF Len(data) = 0 THEN 0 ELSE Len(data[1])

\* data[:, t_index]: IndexError beyond the columns, a negative index counts
\* from the end
ColumnIndexRaises(data, t_index) ==
    t_index >= Shape1(data) \/ t_index < 0 - Shape1(data)

ColumnAt(data, t_index) ==
    LET col == IF t_index < 0 THEN Shape1(data) + t_index ELSE t_index
    IN  [r \in 1..Len(data) |-> data[r][col + 1]]

RECURSIVE SpanBefore(_, _)
\* sum([4 * sensors_per_module_list[i] * 4 for i in range(layer)])
SpanBefore(sensors_per_module_list, layer) ==
    IF layer = 0 THEN 0
    ELSE SpanBefore(sensors_per_module_list, layer - 1)
         + GridRows * sensors_per_module_list[layer] * ColsPerModule

\* the number of layout entries all layers take together
TotalSpan(sensors_per_module_list) ==
    SpanBefore(sensors_per_module_list, Len(sensors_per_module_list))

TotalSensorsPerLayer(sensors_per_module_list, layer) ==
    GridRows * sensors_per_module_list[layer + 1] * ColsPerModule

LayerWidth(sensors_per_module_list, layer) ==
    ColsPerModule * sensors_per_module_list[layer + 1]

\* a variant that slices every layer from the start of the layout
StartIndexNoOffset(sensors_per_module_list, layer) == 0

StartIndex(sensors_per_module_list, layer) ==
    SpanBefore(sensors_per_module_list, layer)

\* custom_sensor_order[start_index:end_index]
LayerSensorIndices(custom_sensor_order, sensors_per_module_list, layer) ==
    LET start_index == StartIndex(sensors_per_module_list, layer)
        end_index == start_index + TotalSensorsPerLayer(sensors_per_module_list, layer)
    IN  PySlice(custom_sensor_order, start_index, end_index)

MatchingRows(sensor_identifiers, wanted_id) ==
    {k \in 0..(Len(sensor_identifiers) - 1) : sensor_identifiers[k + 1].id = wanted_id}

\* a variant with next(..., 0): a missing sensor reads row 0
FirstMatchIndexDefaultRow(sensor_identifiers, wanted_id) ==
    LET M == MatchingRows(sensor_identifiers, wanted_id)
    IN  IF M = {} THEN 0 ELSE SetMin(M)

\* a variant that keeps the last matching row
LastMatchIndex(sensor_identifiers, wanted_id) ==
    LET M == MatchingRows(sensor_identifiers, wanted_id)
    IN  IF M = {} THEN -1 ELSE SetMax(M)

\* next(k for k, (id_pair, _) in enumerate(sensor_identifiers) if id_pair == wanted_id);
\* -1 stands for StopIteration
FirstMatchIndex(sensor_identifiers, wanted_id) ==
    LET M == MatchingRows(sensor_identifiers, wanted_id)
    IN  IF M = {} THEN -1 ELSE SetMin(M)

\* a variant with one column per module
GridCellsOneColumnPerModule(sensors_per_module_list, layer) ==
    (0..(GridRows - 1)) \X (0..(sensors_per_module_list[layer + 1] - 1))

GridCells(sensors_per_module_list, layer) ==
    (0..(GridRows - 1)) \X (0..(LayerWidth(sensors_per_module_list, layer) - 1))

\* a variant that fills the grid column by column
LocalIndexColumnMajor(sensors_per_module_list, layer, i, j) == j * GridRows + i

\* local_index = i * (4 * sensors_per_module) + j
LocalIndex(sensors_per_module_list, layer, i, j) ==
    i * LayerWidth(sensors_per_module_list, layer) + j

\* The row index a cell reads, -1 when the cell is left untouched (beyond the
\* slice, or StopIteration).
CellRow(sensor_identifiers, sensors_per_module_list, layer, layer_sensor_indices, i, j) ==
    LET local_index == LocalIndex(sensors_per_module_list, layer, i, j)
    IN  IF local_index < Len(layer_sensor_indices)
        THEN FirstMatchIndex(sensor_identifiers, layer_sensor_indices[local_index + 1])
        ELSE -1

\* a variant without the except StopIteration: a layout entry that names no
\* row ends the call
RowIndexRaisesOnUnknownId(data, sensor_identifiers, sensors_per_module_list, strings_count, custom_sensor_order) ==
    \E layer \in 0..(strings_count - 1) :
        \E p \in DOMAIN LayerSensorIndices(custom_sensor_order, sensors_per_module_list, layer) :
            FirstMatchIndex(sensor_identifiers,
                LayerSensorIndices(custom_sensor_order, sensors_per_module_list, layer)[p]) = -1

\* data_at_timestamp[idx] raises IndexError when a cell resolves to a row the
\* matrix does not have
RowIndexRaises(data, sensor_identifiers, sensors_per_module_list, strings_count, custom_sensor_order) ==
    /\ Len(data) < Len(sensor_identifiers)
    /\ \E layer \in 0..(strings_count - 1) :
        LET layer_sensor_indices ==
                LayerSensorIndices(custom_sensor_order, sensors_per_module_list, layer)
        IN  \E c \in GridCells(sensors_per_module_list, layer) :
                CellRow(sensor_identifiers, sensors_per_module_list, layer,
                        layer_sensor_indices, c[1], c[2]) >= Len(data)

\* reordered_data_layer
ReorderedDataLayer(data, sensor_identifiers, sensors_per_module_list, layer, t_index, custom_sensor_order) ==
    LET data_at_timestamp == ColumnAt(data, t_index)
        layer_sensor_indices ==
            LayerSensorIndices(custom_sensor_order, sensors_per_module_list, layer)
    IN  [c \in GridCells(sensors_per_module_list, layer) |->
            LET idx == CellRow(sensor_identifiers, sensors_per_module_list, layer,
                               layer_sensor_indices, c[1], c[2])
            IN  IF idx = -1 THEN NaN ELSE data_at_timestamp[idx + 1]]

\* reordered_sensor_numbers_layer
ReorderedSensorNumbersLayer(sensor_identifiers, sensors_per_module_list, layer, custom_sensor_order) ==
    LET layer_sensor_indices ==
            LayerSensorIndices(custom_sensor_order, sensors_per_module_list, layer)
    IN  [c \in GridCells(sensors_per_module_list, layer) |->
            LET idx == CellRow(sensor_identifiers, sensors_per_module_list, layer,
                               layer_sensor_indices, c[1], c[2])
            IN  IF idx = -1 THEN None ELSE sensor_identifiers[idx + 1]]

\* The cells of a grid in row-major order (the order numpy reduces in)
Ravel(grid) ==
    LET w == Cardinality(DOMAIN grid) \div GridRows
    IN  [k \in 1..(GridRows * w) |-> grid[<<(k - 1) \div w, (k - 1) % w>>]]

\* np.nanmax of a vector: not-a-number when all samples are (numpy warns
\* "All-NaN slice encountered" and returns nan)
NanMax(seq) ==
    LET S == {seq[k][1] : k \in {x \in DOMAIN seq : ~IsNaN(seq[x])}}
    IN  IF S = {} THEN NaN ELSE Fl(SetMax(S))

\* np.nanmin of a vector
NanMin(seq) ==
    LET S == {seq[k][1] : k \in {x \in DOMAIN seq : ~IsNaN(seq[x])}}
    IN  IF S = {} THEN NaN ELSE Fl(SetMin(S))

\* count, sum and sum of squares of the samples of seq[1..k] that are numbers
RECURSIVE Moments(_, _)
Moments(seq, k) ==
    IF k = 0 THEN [n |-> 0, s |-> 0, q |-> 0]
    ELSE LET m == Moments(seq, k - 1)
         IN  IF IsNaN(seq[k]) THEN m
             ELSE [n |-> m.n + 1, s |-> m.s + seq[k][1],
                   q |-> m.q + seq[k][1] * seq[k][1]]

\* A float that is a quotient of integers, and the square root of one.  They
\* are kept exact: two quotients are the same float when they cross-multiply.
Quot(num, den) == [num |-> num, den |-> den]

Sqrt(x) == [sqrt_of |-> x]

\* a variant: np.mean, where one not-a-number sample makes the mean
\* not-a-number
MeanPropagating(seq) ==
    LET m == Moments(seq, Len(seq))
    IN  IF m.n < Len(seq) \/ m.n = 0 THEN NaN ELSE Quot(m.s, m.n)

\* np.nanmean of a vector: the samples that are numbers, summed and divided
\* by their count; not-a-number when there is none (numpy warns "Mean of
\* empty slice" and returns nan)
NanMean(seq) ==
    LET m == Moments(seq, Len(seq))
    IN  IF m.n = 0 THEN NaN ELSE Quot(m.s, m.n)

\* np.nanstd of a vector (ddof = 0): sqrt(mean(x^2) - mean(x)^2) over the
\* samples that are numbers; not-a-number when there is none
NanStd(seq) ==
    LET m == Moments(seq, Len(seq))
    IN  IF m.n = 0 THEN NaN ELSE Sqrt(Quot(m.n * m.q - m.s * m.s, m.n * m.n))

\* the statistics of one grid (visualization.py 53-57)
GridStatistics(values) ==
    [mean |-> NanMean(values), max |-> NanMax(values), min |-> NanMin(values),
     range |-> FSub(NanMax(values), NanMin(values)), std |-> NanStd(values)]

\* the lists the statistics are appended to, one entry per layer
StatisticsLists(stats) ==
    [mean_temperatures |-> [l \in DOMAIN stats |-> stats[l].mean],
     max_temperatures |-> [l \in DOMAIN stats |-> stats[l].max],
     min_temperatures |-> [l \in DOMAIN stats |-> stats[l].min],
     temperature_ranges |-> [l \in DOMAIN stats |-> stats[l].range],
     std_devs |-> [l \in DOMAIN stats |-> stats[l].std]]

\* The statistics of the layers, from the grids
LayerStatistics(reordered_layers) ==
    StatisticsLists([l \in DOMAIN reordered_layers |->
                        GridStatistics(Ravel(reordered_layers[l]))])

\* what plot_battery_layout has built when it did not raise
Built(reordered_layers, reordered_sensor_numbers_layers) ==
    [raised |-> "no",
     reordered_layers |-> reordered_layers,
     reordered_sensor_numbers_layers |-> reordered_sensor_numbers_layers,
     statistics |-> LayerStatistics(reordered_layers)]

\* visualization.plot_battery_layout, up to the grids it builds and the
\* statistics it writes into the titles
plot_battery_layout(data, sensor_identifiers, sensors_per_module_list, strings_count, t_index, custom_sensor_order) ==
    IF ColumnIndexRaises(data, t_index)
       \/ RowIndexRaises(data, sensor_identifiers, sensors_per_module_list,
                         strings_count, custom_sensor_order)
    THEN [raised |-> "IndexError", reordered_layers |-> <<>>,
          reordered_sensor_numbers_layers |-> <<>>, statistics |-> None]
    ELSE Built([l \in 1..strings_count |->
                  ReorderedDataLayer(data, sensor_identifiers, sensors_per_module_list,
                                     l - 1, t_index, custom_sensor_order)],
               [l \in 1..strings_count |->
                  ReorderedSensorNumbersLayer(sensor_identifiers, sensors_per_module_list,
                                              l - 1, custom_sensor_order)])

\* The warnings thermal_dynamics_HVB.plot_battery_layout prints (245-246):
\* one per layer whose slice has not the full length.
LayerWarnings(sensors_per_module_list, strings_count, custom_sensor_order) ==
    LET Warned(layer) ==
            Len(LayerSensorIndices(custom_sensor_order, sensors_per_module_list, layer))
                # TotalSensorsPerLayer(sensors_per_module_list, layer)
    IN  {[layer |-> layer + 1,
          expected |-> TotalSensorsPerLayer(sensors_per_module_list, layer),
          got |-> Len(LayerSensorIndices(custom_sensor_order, sensors_per_module_list, layer))]
         : layer \in {l \in 0..(strings_count - 1) : Warned(l)}}

\* the grids together with the warnings printed while they were built
WithWarnings(built, warnings) ==
    [raised |-> built.raised,
     reordered_layers |-> built.reordered_layers,
     reordered_sensor_numbers_layers |-> built.reordered_sensor_numbers_layers,
     statistics |-> built.statistics,
     warnings |-> warnings]

RECURSIVE StartIndexHVB(_, _)
\* start_index = sum([4 * sensors_per_module_list[i] * 4 for i in range(layer)])
\* (thermal_dynamics_HVB.py 240)
StartIndexHVB(sensors_per_module_list, layer) ==
    IF layer = 0 THEN 0
    ELSE StartIndexHVB(sensors_per_module_list, layer - 1)
         + 4 * sensors_per_module_list[layer] * 4

\* layer_sensor_indices = custom_sensor_order[start_index:end_index] (241-243)
LayerSensorIndicesHVB(custom_sensor_order, sensors_per_module_list, layer) ==
    PySlice(custom_sensor_order, StartIndexHVB(sensors_per_module_list, layer),
            StartIndexHVB(sensors_per_module_list, layer)
                + 4 * sensors_per_module_list[layer + 1] * 4)

\* a variant that makes wanted_id a tuple before it is compared
FirstMatchIndexHVBTupled(sensor_identifiers, wanted_id) ==
    IF \E k \in DOMAIN sensor_identifiers : sensor_identifiers[k].id = AsTuple(wanted_id)
    THEN SetMin({k \in DOMAIN sensor_identifiers :
                    sensor_identifiers[k].id = AsTuple(wanted_id)}) - 1
    ELSE -1

\* next(k for k, (id_pair, _) in enumerate(sensor_identifiers)
\*      if id_pair == wanted_id) (256-257); -1 stands for StopIteration
FirstMatchIndexHVB(sensor_identifiers, wanted_id) ==
    IF \E k \in DOMAIN sensor_identifiers : sensor_identifiers[k].id = wanted_id
    THEN SetMin({k \in DOMAIN sensor_identifiers : sensor_identifiers[k].id = wanted_id}) - 1
    ELSE -1

\* the row index cell (i, j) of a layer reads (248-261); -1 when the cell
\* keeps its initial content
CellIndexHVB(sensor_identifiers, sensors_per_module, layer_sensor_indices, i, j) ==
    IF i * (4 * sensors_per_module) + j < Len(layer_sensor_indices)
    THEN FirstMatchIndexHVB(sensor_identifiers,
                            layer_sensor_indices[i * (4 * sensors_per_module) + j + 1])
    ELSE -1

\* the cells of the grids np.full((4, 4 * sensors_per_module), ...) (237-238)
GridCellsHVB(sensors_per_module) == (0..3) \X (0..(4 * sensors_per_module - 1))

\* the row indices of all cells of all layers
CellIndicesHVB(sensor_identifiers, sensors_per_module_list, strings_count, custom_sensor_order) ==
    [l \in 1..strings_count |->
        [c \in GridCellsHVB(sensors_per_module_list[l]) |->
            CellIndexHVB(sensor_identifiers, sensors_per_module_list[l],
                         LayerSensorIndicesHVB(custom_sensor_order, sensors_per_module_list,
                                               l - 1),
                         c[1], c[2])]]

\* the five lists of statistics (269-280)
StatisticsHVB(reordered_layers) ==
    [mean_temperatures |-> [l \in DOMAIN reordered_layers |-> NanMean(Ravel(reordered_layers[l]))],
     max_temperatures |-> [l \in DOMAIN reordered_layers |-> NanMax(Ravel(reordered_layers[l]))],
     min_temperatures |-> [l \in DOMAIN reordered_layers |-> NanMin(Ravel(reordered_layers[l]))],
     temperature_ranges |->
         [l \in DOMAIN reordered_layers |->
             FSub(NanMax(Ravel(reordered_layers[l])), NanMin(Ravel(reordered_layers[l])))],
     std_devs |-> [l \in DOMAIN reordered_layers |-> NanStd(Ravel(reordered_layers[l]))]]

\* the grids and statistics from the row indices of the cells
BuiltHVB(data_at_timestamp, sensor_identifiers, idx, warnings) ==
    IF \E l \in DOMAIN idx : \E c \in DOMAIN idx[l] : idx[l][c] >= Len(data_at_timestamp)
    THEN [raised |-> "IndexError", reordered_layers |-> <<>>,
          reordered_sensor_numbers_layers |-> <<>>, statistics |-> None,
          warnings |-> warnings]
    ELSE [raised |-> "no",
          reordered_layers |->
              [l \in DOMAIN idx |->
                  [c \in DOMAIN idx[l] |->
                      IF idx[l][c] = -1 THEN NaN ELSE data_at_timestamp[idx[l][c] + 1]]],
          reordered_sensor_numbers_layers |->
              [l \in DOMAIN idx |->
                  [c \in DOMAIN idx[l] |->
                      IF idx[l][c] = -1 THEN None ELSE sensor_identifiers[idx[l][c] + 1]]],
          statistics |->
              StatisticsHVB([l \in DOMAIN idx |->
                  [c \in DOMAIN idx[l] |->
                      IF idx[l][c] = -1 THEN NaN ELSE data_at_timestamp[idx[l][c] + 1]]]),
          warnings |-> warnings]

\* thermal_dynamics_HVB.plot_battery_layout (221-280), up to the grids it
\* builds, the statistics and the warnings it prints
plot_battery_layout_HVB(data, sensor_identifiers, sensors_per_module_list, strings_count, t_index, custom_sensor_order) ==
    IF ColumnIndexRaises(data, t_index)
    THEN [raised |-> "IndexError", reordered_layers |-> <<>>,
          reordered_sensor_numbers_layers |-> <<>>, statistics |-> None, warnings |-> {}]
    ELSE BuiltHVB(ColumnAt(data, t_index), sensor_identifiers,
                  CellIndicesHVB(sensor_identifiers, sensors_per_module_list, strings_count,
                                 custom_sensor_order),
                  LayerWarnings(sensors_per_module_list, strings_count, custom_sensor_order))

(***************************************************************************)
(* Inputs of the pure functions, drawn from bounded sets.                  *)
(***************************************************************************)
FlowValues == {Fl(v) : v \in (0 - MaxFlow)..MaxFlow} \cup {NaN}

TempValues == {Fl(v) : v \in 0..MaxTemp} \cup {NaN}

\* sensors_per_module_list: one positive module count per layer
ModuleCounts == {1, 2}

ModuleConfigs == UNION {[1..n -> ModuleCounts] : n \in 1..MaxLayers}

MaxSpan == SetMax({TotalSpan(cfg) : cfg \in ModuleConfigs})


\* Sensor records as extract_temperatures_from_mf4 returns them: the id is a
\* tuple (num, bms), the name is the channel name (one per row).  "plain"
\* numbers the rows 1, 2, ...; "reversed" stores them in the opposite order;
\* "dup" has each SensorId on two adjacent rows (channel names that differ
\* in case or zero padding give the same id).
SensorNum(variant, k) ==
    CASE variant = "plain" -> k
      [] variant = "reversed" -> NumSensors + 1 - k
      [] variant = "dup" -> (k + 1) \div 2

SensorIdentifiers(variant) ==
    [k \in 1..NumSensors |->
        [id |-> TupleId(SensorNum(variant, k), "01"),
         name |-> <<"moduleTemperature", k>>]]

SensorVariants == {"plain", "reversed", "dup"}

\* A raw matrix: every (row, column) has its own value, some samples are
\* not-a-number.
RawMatrix(rows, cols, seed) ==
    [r \in 1..rows |->
        [t \in 1..cols |->
            IF (r + t + seed) % 3 = 0 THEN NaN ELSE Fl(10 * r + t + seed)]]

\* A layout of the given length: entry p names sensor number
\* ((p + shift) mod (NumSensors + 1)) + 1 (NumSensors + 1 is in no data set)
\* with group tag "01", every seventh entry with "05" (in no data set).
LayoutOf(len, shift, kind) ==
    [p \in 1..len |->
        [kind |-> kind,
         num |-> ((p - 1 + shift) % (NumSensors + 1)) + 1,
         tag |-> IF (p - 1) % 7 = 6 THEN "05" ELSE "01"]]

\* <<sensor variant, shift, kind>>: tuple entries (main.load_sensor_order, the
\* literal of thermal_dynamics_HVB) and list entries (json.load without tuple())
LayoutChoices ==
    {<<"plain", 0, "tuple">>, <<"reversed", 3, "tuple">>, <<"dup", 0, "tuple">>,
     <<"plain", 0, "list">>}

LayoutLengths(sensors_per_module_list) ==
    0..(TotalSpan(sensors_per_module_list) + MaxExtra)

PblArgs ==
    {[data |-> RawMatrix(NumSensors, NumFrames, 0),
      sensor_identifiers |-> SensorIdentifiers(q[4][1]),
      sensors_per_module_list |-> q[1],
      strings_count |-> Len(q[1]),
      t_index |-> q[2],
      custom_sensor_order |-> LayoutOf(q[3], q[4][2], q[4][3])] :
        q \in {x \in ModuleConfigs \X (0..(NumFrames - 1)) \X (0..(MaxSpan + MaxExtra))
                     \X LayoutChoices :
                 x[3] \in LayoutLengths(x[1])}}

\* no interactive session is running
NoSession ==
    /\ impl = "none"
    /\ phase = "none"
    /\ env = Pending
    /\ lists = Pending
    /\ order_ref = "none"
    /\ slider_val = 0
    /\ playing = FALSE
    /\ frame = Pending
    /\ last_event = Pending

\* no event loop runs
NoLoop == pending = <<>> /\ stack = <<>>

\* no wrapped function was called
NoCache == cache_fs = Pending /\ cache_call = Pending

NoExtract == ex_args = Pending /\ ex_result = Pending

(***************************************************************************)
(* SpecFlux: calls of calculation_heat_flux.                               *)
(***************************************************************************)
InitFlux ==
    /\ hf_args \in [volumenstrom : FlowValues, temp_inlet : TempValues,
                    temp_outlet : TempValues]
    /\ hf_result = Pending
    /\ pbl_args = Pending
    /\ pbl_result = Pending
    /\ hvb_result = Pending
    /\ NoSession
    /\ NoLoop
    /\ NoCache
    /\ NoExtract

CallHeatFlux ==
    /\ hf_args # Pending
    /\ hf_result = Pending
    /\ hf_result' = [value |-> calculation_heat_flux(hf_args.volumenstrom,
                                   hf_args.temp_inlet, hf_args.temp_outlet)]
    /\ UNCHANGED <<hf_args, frameVars, sessionVars, loopVars, cacheVars, extractVars>>

NextFlux == CallHeatFlux

SpecFlux == InitFlux /\ [][NextFlux]_vars

(***************************************************************************)
(* SpecFrame: calls of the two plot_battery_layout on the same arguments.  *)
(***************************************************************************)
InitFrame ==
    /\ pbl_args \in PblArgs
    /\ pbl_result = Pending
    /\ hvb_result = Pending
    /\ hf_args = Pending
    /\ hf_result = Pending
    /\ NoSession
    /\ NoLoop
    /\ NoCache
    /\ NoExtract

CallPlotBatteryLayout ==
    /\ pbl_args # Pending
    /\ pbl_result = Pending
    /\ pbl_result' = plot_battery_layout(pbl_args.data, pbl_args.sensor_identifiers,
                         pbl_args.sensors_per_module_list, pbl_args.strings_count,
                         pbl_args.t_index, pbl_args.custom_sensor_order)
    /\ UNCHANGED <<pbl_args, hvb_result, fluxVars, sessionVars, loopVars, cacheVars, extractVars>>

CallPlotBatteryLayoutHVB ==
    /\ pbl_args # Pending
    /\ pbl_result # Pending
    /\ hvb_result = Pending
    /\ hvb_result' = plot_battery_layout_HVB(pbl_args.data, pbl_args.sensor_identifiers,
                         pbl_args.sensors_per_module_list, pbl_args.strings_count,
                         pbl_args.t_index, pbl_args.custom_sensor_order)
    /\ UNCHANGED <<pbl_args, pbl_result, fluxVars, sessionVars, loopVars, cacheVars, extractVars>>

NextFrame == CallPlotBatteryLayout \/ CallPlotBatteryLayoutHVB

SpecFrame == InitFrame /\ [][NextFrame]_vars

\* how far beyond the first and the last column a time index is tried
MaxBeyond == 2

\* calls with any time index, inside the columns and beyond both ends
PblArgsAnyIndex ==
    {[data |-> RawMatrix(NumSensors, NumFrames, 0),
      sensor_identifiers |-> SensorIdentifiers("plain"),
      sensors_per_module_list |-> cfg,
      strings_count |-> Len(cfg),
      t_index |-> t,
      custom_sensor_order |-> LayoutOf(TotalSpan(cfg), 0, kind)] :
        cfg \in ModuleConfigs, t \in (0 - NumFrames - MaxBeyond)..(NumFrames - 1 + MaxBeyond),
        kind \in {"tuple", "list"}}

InitIndex ==
    /\ pbl_args \in PblArgsAnyIndex
    /\ pbl_result = Pending
    /\ hvb_result = Pending
    /\ hf_args = Pending
    /\ hf_result = Pending
    /\ NoSession
    /\ NoLoop
    /\ NoCache
    /\ NoExtract

NextIndex == CallPlotBatteryLayout \/ CallPlotBatteryLayoutHVB

SpecIndex == InitIndex /\ [][NextIndex]_vars

(***************************************************************************)
(* cache_data of config_utils.py and thermal_dynamics_HVB.py: the wrapper  *)
(* that keeps the result of an extractor in a pickle file under data/.     *)
(* cache_fs is the file system (a clock, the source file, the cache file), *)
(* cache_call the last call of a wrapped function and what it did.         *)
(***************************************************************************)
MaxClock == 3      \* the modification times that occur: 1 .. MaxClock

MaxVersion == 2    \* the contents the source file takes: 1 .. MaxVersion

CacheModules == {"config_utils", "thermal_dynamics_HVB"}

WrappedFunctions == {"extract_inlet_outlet_flow", "extract_temperatures_from_mf4"}

NoFile == [exists |-> FALSE, mtime |-> 0, content |-> None]

\* what a source file holds and an extractor returns: version v of the
\* measured series, 0 for series that are empty
Series(v) == [series |-> v]

FileAt(mtime, content) == [exists |-> TRUE, mtime |-> mtime, content |-> content]

\* an argument the call does not have (None in the wrapper)
Absent == "absent"

\* the calls: the source path is the first positional argument; cache_filename
\* and force_refresh are keyword arguments the caller gives or leaves out
CacheCalls ==
    {[func |-> f, cache_filename |-> c, force_refresh |-> r] :
        f \in WrappedFunctions, c \in {Absent, "flow_data.pkl"},
        r \in {Absent, "False", "True"}}

\* kwargs.get('db_path') or args_dict.get('db_path'): only a parameter named
\* db_path is found, the parameter of extract_temperatures_from_mf4 is mf4_path
DbPath(func) == IF func = "extract_inlet_outlet_flow" THEN "db_path" ELSE Absent

\* os.path.getmtime(db_path) if db_path and os.path.exists(db_path) else 0
DbMtime(db_path, source) == IF db_path # Absent /\ source.exists THEN source.mtime ELSE 0

\* a variant that takes a cache file as fresh when it is as old as the source
CacheFreshWhenEqual(cache_mtime, db_mtime) == cache_mtime >= db_mtime

\* if cache_mtime > db_mtime
CacheFresh(cache_mtime, db_mtime) == cache_mtime > db_mtime

\* kwargs.get('force_refresh', False)
ForceRefresh(call) == call.force_refresh = "True"

\* the two conditions under which the wrapper returns pickle.load(f)
LoadsCache(fs, call) ==
    /\ call.cache_filename # Absent
    /\ fs.cache.exists
    /\ ~ForceRefresh(call)
    /\ CacheFresh(fs.cache.mtime, DbMtime(DbPath(call.func), fs.source))

\* func(*args, **kwargs): extract_inlet_outlet_flow catches the errors of its
\* queries and returns empty series when the data base has nothing to read;
\* extract_temperatures_from_mf4 has the one parameter mf4_path, so a keyword
\* argument is a TypeError, and MDF(mf4_path) raises for a missing file
Produce(call, source) ==
    IF call.func = "extract_temperatures_from_mf4"
    THEN IF call.cache_filename # Absent \/ call.force_refresh # Absent
         THEN [raised |-> "TypeError", value |-> None]
         ELSE IF ~source.exists THEN [raised |-> "Exception", value |-> None]
         ELSE [raised |-> "no", value |-> source.content]
    ELSE [raised |-> "no", value |-> IF source.exists THEN source.content ELSE Series(0)]

CacheOutcome(returned, raised, producer_called, cache_written) ==
    [returned |-> returned, raised |-> raised,
     producer_called |-> producer_called, cache_written |-> cache_written]

\* the rest of wrapper once func has returned or raised: open(cache_filename,
\* 'wb') needs the directory data, which thermal_dynamics_HVB.py makes on
\* import (line 32) and config_utils.py does not
AfterProduce(fs, call, produced) ==
    IF produced.raised # "no" THEN CacheOutcome(None, produced.raised, TRUE, FALSE)
    ELSE IF call.cache_filename = Absent THEN CacheOutcome(produced.value, "no", TRUE, FALSE)
    ELSE IF ~fs.data_dir THEN CacheOutcome(None, "FileNotFoundError", TRUE, FALSE)
    ELSE CacheOutcome(produced.value, "no", TRUE, TRUE)

\* wrapper(*args, **kwargs)
cache_data(fs, call) ==
    IF LoadsCache(fs, call) THEN CacheOutcome(fs.cache.content, "no", FALSE, FALSE)
    ELSE AfterProduce(fs, call, Produce(call, fs.source))

\* the record of a call: the arguments, the files it found, what it did
CacheCallRecord(call, fs, outcome) ==
    [call |-> call, source |-> fs.source, cache |-> fs.cache, outcome |-> outcome]

\* one call of a wrapped function.  The sqlite connection of
\* extract_inlet_outlet_flow may create the data base file it does not find.
CallWrapped ==
    /\ cache_fs # Pending
    /\ \E call \in CacheCalls, created \in BOOLEAN :
         \E o \in {cache_data(cache_fs, call)} :
           /\ created => /\ o.producer_called
                         /\ call.func = "extract_inlet_outlet_flow"
                         /\ ~cache_fs.source.exists
           /\ cache_call' = CacheCallRecord(call, cache_fs, o)
           /\ cache_fs' = [cache_fs EXCEPT
                 !.cache = IF o.cache_written THEN FileAt(cache_fs.clock, o.returned) ELSE @,
                 !.source = IF created THEN FileAt(cache_fs.clock, Series(0)) ELSE @]
    /\ UNCHANGED <<fluxVars, frameVars, sessionVars, loopVars, extractVars>>

\* time passes
CacheTick ==
    /\ cache_fs # Pending
    /\ cache_fs.clock < MaxClock
    /\ cache_fs' = [cache_fs EXCEPT !.clock = @ + 1]
    /\ UNCHANGED <<cache_call, fluxVars, frameVars, sessionVars, loopVars, extractVars>>

\* a measurement is written to the source file
WriteSource ==
    /\ cache_fs # Pending
    /\ \E v \in 1..MaxVersion :
         /\ FileAt(cache_fs.clock, Series(v)) # cache_fs.source
         /\ cache_fs' = [cache_fs EXCEPT !.source = FileAt(cache_fs.clock, Series(v))]
    /\ UNCHANGED <<cache_call, fluxVars, frameVars, sessionVars, loopVars, extractVars>>

InitCache ==
    /\ cache_fs \in {fs \in [module : CacheModules, clock : {1}, data_dir : BOOLEAN,
                             source : {NoFile, FileAt(1, Series(1))}, cache : {NoFile}] :
                        fs.module = "thermal_dynamics_HVB" => fs.data_dir}
    /\ cache_call = Pending
    /\ pbl_args = Pending
    /\ pbl_result = Pending
    /\ hvb_result = Pending
    /\ hf_args = Pending
    /\ hf_result = Pending
    /\ NoSession
    /\ NoLoop
    /\ NoExtract

NextCache == CallWrapped \/ CacheTick \/ WriteSource

SpecCache == InitCache /\ [][NextCache]_vars

(***************************************************************************)
(* The extractors.  extract_temperatures_from_mf4 (data_extraction.py and  *)
(* thermal_dynamics_HVB.py) reads the channels of a measurement file in    *)
(* the order mdf.iter_channels() yields them.                              *)
(***************************************************************************)
MaxChannels == 3    \* channels of a measurement file

MaxSamples == 2     \* samples of the longest channel

\* Channel names: a base word, the digits of the sensor number, the digits
\* after "_BMS", and what follows them.
ChannelNames ==
    {[base |-> b, num |-> n, bms |-> g, tail |-> t] :
        b \in {"moduleTemperature", "MODULETEMPERATURE", "cellVoltage"},
        n \in {"7", "07", "12"}, g \in {"1", "05"}, t \in {"", "_raw"}}

\* pattern.fullmatch(ch.name.lower()) with "moduletemperature(\d+)_bms(\d+)"
Matches(name) ==
    /\ name.base \in {"moduleTemperature", "MODULETEMPERATURE"}
    /\ name.tail = ""

\* int(m.group(1))
IntOf(digits) ==
    CASE digits = "7" -> 7
      [] digits = "07" -> 7
      [] digits = "12" -> 12

\* m.group(2).zfill(2)
ZFill2(digits) ==
    CASE digits = "1" -> "01"
      [] digits = "05" -> "05"

\* a variant that takes the samples of every channel whose name matches
NumericAny(kind) == TRUE

\* samples.dtype.kind in "fiu": float, signed or unsigned integer, and not
\* for instance a byte string ("S")
Numeric(kind) == kind \in {"f", "i", "u"}

\* the samples of a channel of the given length; a float channel has a
\* sample that is not-a-number, a byte-string channel has text
ChannelSamples(kind, len, seed) ==
    [t \in 1..len |->
        IF kind \in {"S"} THEN "text"
        ELSE IF kind = "f" /\ t = 2 THEN NaN
        ELSE Fl(seed + t)]

\* the lengths of the channels of a kind
ChannelLengths(kind) ==
    CASE kind = "f" -> {MaxSamples - 1, MaxSamples}
      [] kind = "i" -> {0, MaxSamples}
      [] OTHER -> {MaxSamples}

\* the channels a file can hold: two names that match, in every kind and
\* length, and two that do not
Channels ==
    {[name |-> c.name, kind |-> c.kind,
      samples |-> ChannelSamples(c.kind, c.len, IntOf(c.name.num))] :
        c \in {x \in [name : ChannelNames, kind : {"f", "i", "S"}, len : 0..MaxSamples] :
                 /\ x.len \in ChannelLengths(x.kind)
                 /\ \/ x.name = [base |-> "moduleTemperature", num |-> "12", bms |-> "1", tail |-> ""]
                    \/ x.name = [base |-> "MODULETEMPERATURE", num |-> "07", bms |-> "05", tail |-> ""]
                    \/ /\ x.kind = "f"
                       /\ x.len = MaxSamples
                       /\ x.name \in
                            {[base |-> "moduleTemperature", num |-> "7", bms |-> "1", tail |-> "_raw"],
                             [base |-> "cellVoltage", num |-> "7", bms |-> "1", tail |-> ""]}}}

\* the channels the loop appends: name matches and samples are numeric
Accepted(ch) == Matches(ch.name) /\ Numeric(ch.kind)

RECURSIVE AcceptedChannels(_, _)
\* the accepted channels among the first k, in iteration order
AcceptedChannels(channels, k) ==
    IF k = 0 THEN <<>>
    ELSE IF Accepted(channels[k])
    THEN Append(AcceptedChannels(channels, k - 1), channels[k])
    ELSE AcceptedChannels(channels, k - 1)

\* ((num, bms), ch.name)
SensorIdOf(ch) ==
    [id |-> TupleId(IntOf(ch.name.num), ZFill2(ch.name.bms)), name |-> ch.name]

\* np.vstack([a[:min_len] for a in data_list]) and sensor_ids
Stacked(data_list, min_len) ==
    [raised |-> "no",
     temps |-> [k \in DOMAIN data_list |-> SubSeq(data_list[k].samples, 1, min_len)],
     sensor_ids |-> [k \in DOMAIN data_list |-> SensorIdOf(data_list[k])]]

\* the function after its loop
ExtractedFrom(data_list) ==
    IF data_list = <<>>
    THEN [raised |-> "RuntimeError", temps |-> None, sensor_ids |-> None]
    ELSE Stacked(data_list, SetMin({Len(data_list[k].samples) : k \in DOMAIN data_list}))

extract_temperatures_from_mf4(channels) ==
    ExtractedFrom(AcceptedChannels(channels, Len(channels)))

\* the measurement files: up to MaxChannels channels in any order
Mf4Files ==
    UNION {[1..n -> Channels] : n \in 0..MaxChannels}

CallExtractTemperatures ==
    /\ ex_args # Pending
    /\ ex_args.source = "mf4"
    /\ ex_result = Pending
    /\ ex_result' = extract_temperatures_from_mf4(ex_args.channels)
    /\ UNCHANGED <<ex_args, fluxVars, frameVars, sessionVars, loopVars, cacheVars>>

\* extract_inlet_outlet_flow (data_extraction.py 38-77 and
\* thermal_dynamics_HVB.py 112-170).  For each role the lookup table has
\* entries in order; the query of an entry raises, gives no rows after
\* dropna, or gives the values of the column.
QueryError == [status |-> "error", values |-> <<>>]

QueryEmpty == [status |-> "empty", values |-> <<>>]

QueryRows(values) == [status |-> "rows", values |-> values]

\* the columns a query can give: one sample and more, starting with 0.0 or not
ColumnValues ==
    {[t \in 1..n |-> Fl(base + t - 1)] : n \in 1..MaxSamples, base \in {0, 3}}

\* the entries of one role
RoleEntries ==
    {<<>>, <<QueryError>>, <<QueryEmpty>>, <<QueryRows(<<Fl(3)>>), QueryRows(<<Fl(0)>>)>>}
        \cup {<<QueryRows(v)>> : v \in ColumnValues}
        \cup {<<QueryEmpty, QueryRows(v)>> : v \in ColumnValues}

Roles == {"inlet", "outlet", "flow"}

DbFiles == [Roles -> RoleEntries]

RECURSIVE SignalData(_, _)
\* signals[key]['data'] after the loop over the entries from position k on:
\* the array of the first query that gives rows, None when there is none
SignalData(entries, k) ==
    IF k > Len(entries) THEN None
    ELSE IF entries[k].status = "rows" THEN [values |-> entries[k].values]
    ELSE SignalData(entries, k + 1)

\* bool(x) of what signals[key]['data'] holds: None is false, an array of one
\* sample has the truth of the sample, a longer array raises ValueError
TruthOfData(d) ==
    IF d = None THEN "False"
    ELSE IF Len(d.values) > 1 THEN "ValueError"
    ELSE IF FIsZero(d.values[1]) THEN "False"
    ELSE "True"

\* signals[key]['data'] or []
DataOrEmpty(d) == IF TruthOfData(d) = "True" THEN d.values ELSE <<>>

\* signals[key]['data'] if signals[key]['data'] is not None else []
DataUnlessNone(d) == IF d = None THEN <<>> ELSE d.values

Extracted(raised, inlet, outlet, fl) ==
    [raised |-> raised, inlet |-> inlet, outlet |-> outlet, flow |-> fl]

\* data_extraction.extract_inlet_outlet_flow
extract_inlet_outlet_flow(db) ==
    IF \E r \in Roles : TruthOfData(SignalData(db[r], 1)) = "ValueError"
    THEN Extracted("ValueError", <<>>, <<>>, <<>>)
    ELSE Extracted("no", DataOrEmpty(SignalData(db["inlet"], 1)),
                   DataOrEmpty(SignalData(db["outlet"], 1)),
                   DataOrEmpty(SignalData(db["flow"], 1)))

\* thermal_dynamics_HVB.extract_inlet_outlet_flow
extract_inlet_outlet_flow_HVB(db) ==
    Extracted("no", DataUnlessNone(SignalData(db["inlet"], 1)),
              DataUnlessNone(SignalData(db["outlet"], 1)),
              DataUnlessNone(SignalData(db["flow"], 1)))

\* both versions are called on the same database, the modular one first
CallExtractInletOutletFlow ==
    /\ ex_args # Pending
    /\ ex_args.source = "db"
    /\ ex_result = Pending
    /\ ex_result' = [modular |-> extract_inlet_outlet_flow(ex_args.db), monolith |-> Pending]
    /\ UNCHANGED <<ex_args, fluxVars, frameVars, sessionVars, loopVars, cacheVars>>

CallExtractInletOutletFlowHVB ==
    /\ ex_args # Pending
    /\ ex_args.source = "db"
    /\ ex_result # Pending
    /\ ex_result.monolith = Pending
    /\ ex_result' = [ex_result EXCEPT !.monolith = extract_inlet_outlet_flow_HVB(ex_args.db)]
    /\ UNCHANGED <<ex_args, fluxVars, frameVars, sessionVars, loopVars, cacheVars>>

InitExtract ==
    /\ ex_args \in {[source |-> "mf4", channels |-> f] : f \in Mf4Files}
                     \cup {[source |-> "db", db |-> d] : d \in DbFiles}
    /\ ex_result = Pending
    /\ cache_fs = Pending
    /\ cache_call = Pending
    /\ pbl_args = Pending
    /\ pbl_result = Pending
    /\ hvb_result = Pending
    /\ hf_args = Pending
    /\ hf_result = Pending
    /\ NoSession
    /\ NoLoop

NextExtract ==
    \/ CallExtractTemperatures
    \/ CallExtractInletOutletFlow
    \/ CallExtractInletOutletFlowHVB

SpecExtract == InitExtract /\ [][NextExtract]_vars

(***************************************************************************)
(* The interactive session: interactive_battery_layout of interface.py,    *)
(* interface_modified.py, interface_development.py and                     *)
(* thermal_dynamics_HVB.py.  A handler runs to completion before the next  *)
(* event is taken (one GUI thread): each handler is one action.            *)
(***************************************************************************)
SessionFrames == 7    \* columns of the raw matrix of a session

StepFrames == 5       \* the step of fast forward and rewind

Implementations ==
    {"interface", "interface_modified", "interface_development", "thermal_dynamics_HVB"}

\* What a layout file holds when a handler reads it.  json.load gives the
\* entries of sensor_order as lists.
FileMissing == [status |-> "missing"]

FileInvalidJson == [status |-> "invalid"]

FileNoKey == [status |-> "nokey"]

FileOk(sensor_order) == [status |-> "ok", sensor_order |-> sensor_order]

FileStates(sensors_per_module_list) ==
    {FileMissing, FileInvalidJson, FileNoKey}
        \cup {FileOk(LayoutOf(TotalSpan(sensors_per_module_list), 3, "list")),
              FileOk(LayoutOf(4, 1, "list")),
              FileOk(<<>>)}

SessionConfigs == {<<1, 1>>}

\* how many samples the short coolant series lacks
ShortBy == 2

\* A coolant series: one sample is not-a-number, some flows are zero.
CoolantSeries(len, base, nan_at) ==
    [t \in 1..len |-> IF t = nan_at THEN NaN ELSE Fl(base + ((t - 1) % 3))]

\* The coolant series as the callers pass them: the empty lists of main.py,
\* recorded series as lists (one longer, one shorter than the raw matrix),
\* and the numpy arrays thermal_dynamics_HVB.extract_inlet_outlet_flow
\* returns (df[column_name].values; never empty).
CoolantChoices ==
    {[inlet_temp |-> <<>>, outlet_temp |-> <<>>, flow |-> <<>>, coolant_kind |-> "list"],
     [inlet_temp |-> CoolantSeries(SessionFrames, 20, 3),
      outlet_temp |-> CoolantSeries(SessionFrames + 1, 21, 6),
      flow |-> CoolantSeries(SessionFrames, 0, 5), coolant_kind |-> "list"],
     [inlet_temp |-> CoolantSeries(SessionFrames, 20, 0),
      outlet_temp |-> <<>>,
      flow |-> CoolantSeries(SessionFrames - ShortBy, 1, 0), coolant_kind |-> "list"],
     [inlet_temp |-> CoolantSeries(SessionFrames, 20, 0),
      outlet_temp |-> CoolantSeries(SessionFrames, 21, 0),
      flow |-> CoolantSeries(SessionFrames, 1, 0), coolant_kind |-> "ndarray"]}

SessionArgs ==
    {[data |-> RawMatrix(NumSensors, SessionFrames, 0),
      sensor_identifiers |-> SensorIdentifiers("plain"),
      sensors_per_module_list |-> cfg,
      strings_count |-> Len(cfg),
      inlet_temp |-> c.inlet_temp,
      outlet_temp |-> c.outlet_temp,
      flow |-> c.flow,
      coolant_kind |-> c.coolant_kind] : cfg \in SessionConfigs, c \in CoolantChoices}

\* the list the caller passes as custom_sensor_order: a full layout of
\* tuples, or the empty list main.load_sensor_order gives without a file
CallerLayouts(sensors_per_module_list) ==
    {LayoutOf(TotalSpan(sensors_per_module_list), 0, "tuple"), <<>>}

\* the list custom_sensor_order refers to
ActiveOrder == lists[order_ref]

\* nothing drawn and nothing printed yet
NoFrame ==
    [heat |-> None, trend |-> [overall |-> <<>>, layer_mean |-> <<>>], printed |-> {},
     coolant |-> [inlet |-> "none", outlet |-> "none", flow |-> "none", heat |-> "none",
                  called |-> FALSE]]

\* seq[:n]
Trim(seq, n) == SubSeq(seq, 1, Min(n, Len(seq)))

\* bool(series) as "if not series" and "series or ..." evaluate it: a list
\* is true when it has an entry; an array of one sample is true when the
\* sample is not 0; an array of several samples raises ValueError (the truth
\* value of an array is ambiguous), an empty array as well from NumPy 2.2 on.
Truth(series, kind) ==
    IF kind = "list" THEN (IF Len(series) = 0 THEN "False" ELSE "True")
    ELSE IF Len(series) = 1 THEN (IF FIsZero(series[1]) THEN "False" ELSE "True")
    ELSE "ValueError"

\* if not series: series = [np.nan] * data_length
OrNaNs(series, kind, data_length) ==
    IF Truth(series, kind) = "False" THEN [t \in 1..data_length |-> NaN] ELSE series

\* a variant that takes the rows of every layer from row 0 on
LayerRowsAtNoOffset(data, sensors_per_module_list, layer, t) ==
    ColumnAt(PySlice(data, 0, TotalSensorsPerLayer(sensors_per_module_list, layer)), t)

\* data[start_idx:end_idx, t]: the samples at column t of the rows of one
\* layer, rows counted in storage order
LayerRowsAt(data, sensors_per_module_list, layer, t) ==
    ColumnAt(PySlice(data, SpanBefore(sensors_per_module_list, layer),
                     SpanBefore(sensors_per_module_list, layer)
                         + TotalSensorsPerLayer(sensors_per_module_list, layer)), t)

\* layer_mean_temps (interface.py 95-99, interface_modified.py 124-128,
\* interface_development.py 127-131, thermal_dynamics_HVB.py 420-425):
\* np.nanmean(data[start_idx:end_idx, :], axis=0) for every layer
LayerMeanTemps(data, sensors_per_module_list, strings_count) ==
    [l \in 1..strings_count |->
        [t \in 1..Shape1(data) |->
            NanMean(LayerRowsAt(data, sensors_per_module_list, l - 1, t - 1))]]

\* overall_temp_range_over_time: np.nanmax(data, axis=0) - np.nanmin(data,
\* axis=0)
OverallTempRangeOverTime(data) ==
    [t \in 1..Shape1(data) |->
        FSub(NanMax(ColumnAt(data, t - 1)), NanMin(ColumnAt(data, t - 1)))]

\* the order of two quotients with positive denominators
QuotLeq(a, b) == a.num * b.den <= b.num * a.den

\* a - b for two means, not-a-number when one of them is
QuotSub(a, b) ==
    IF IsNaN(a) \/ IsNaN(b) THEN NaN
    ELSE Quot(a.num * b.den - b.num * a.den, a.den * b.den)

\* np.nanmax and np.nanmin of a vector of means
QuotNanMax(seq) ==
    LET S == {k \in DOMAIN seq : ~IsNaN(seq[k])}
    IN  IF S = {} THEN NaN
        ELSE seq[CHOOSE k \in S : \A j \in S : QuotLeq(seq[j], seq[k])]

QuotNanMin(seq) ==
    LET S == {k \in DOMAIN seq : ~IsNaN(seq[k])}
    IN  IF S = {} THEN NaN
        ELSE seq[CHOOSE k \in S : \A j \in S : QuotLeq(seq[k], seq[j])]

\* range_mean_layer_temps: np.nanmax(layer_mean_temps, axis=0)
\* - np.nanmin(layer_mean_temps, axis=0)
RangeMeanLayerTemps(layer_mean_temps, total_frames) ==
    [t \in 1..total_frames |->
        QuotSub(QuotNanMax([l \in DOMAIN layer_mean_temps |-> layer_mean_temps[l][t]]),
                QuotNanMin([l \in DOMAIN layer_mean_temps |-> layer_mean_temps[l][t]]))]

\* the set-up is left by the ValueError of a truth test
SetUpRaises(im, args) ==
    /\ im # "interface_development"
    /\ \E series \in {args.inlet_temp, args.outlet_temp, args.flow} :
          Truth(series, args.coolant_kind) = "ValueError"

\* the variables of the set-up when it is done
SetUpDone(args, data, inlet, outlet, fl, total_frames) ==
    [data |-> data,
     sensor_identifiers |-> args.sensor_identifiers,
     sensors_per_module_list |-> args.sensors_per_module_list,
     strings_count |-> args.strings_count,
     inlet_temp |-> inlet,
     outlet_temp |-> outlet,
     flow |-> fl,
     total_frames |-> total_frames,
     layer_mean_temps |-> LayerMeanTemps(data, args.sensors_per_module_list,
                                         args.strings_count),
     overall_temp_range_over_time |-> OverallTempRangeOverTime(data),
     range_mean_layer_temps |->
         RangeMeanLayerTemps(LayerMeanTemps(data, args.sensors_per_module_list,
                                            args.strings_count), Shape1(data)),
     raised |-> "no"]

\* all series cut to min_length
SetUpTrimmed(args, inlet, outlet, fl, min_length) ==
    SetUpDone(args, [r \in 1..Len(args.data) |-> Trim(args.data[r], min_length)],
              Trim(inlet, min_length), Trim(outlet, min_length), Trim(fl, min_length),
              min_length)

\* min_length = min(data_length, len(inlet_temp), len(outlet_temp), len(flow))
SetUpFilled(args, inlet, outlet, fl) ==
    SetUpTrimmed(args, inlet, outlet, fl,
                 Min(Min(Shape1(args.data), Len(inlet)), Min(Len(outlet), Len(fl))))

\* The set-up of interface.py (17-27), interface_modified.py (75-87) and
\* thermal_dynamics_HVB.py (344-364): fill empty coolant series, trim all
\* series to the shortest.  interface_development.py (70-71) ignores the
\* coolant series.  When a truth test raises, the variables are as passed
\* and total_frames (0) is not assigned.
SetUpEnv(im, args) ==
    IF SetUpRaises(im, args)
    THEN [SetUpDone(args, args.data, args.inlet_temp, args.outlet_temp, args.flow, 0)
            EXCEPT !.raised = "ValueError", !.layer_mean_temps = <<>>,
                   !.overall_temp_range_over_time = <<>>,
                   !.range_mean_layer_temps = <<>>]
    ELSE IF im = "interface_development"
    THEN SetUpDone(args, args.data, args.inlet_temp, args.outlet_temp, args.flow,
                   Shape1(args.data))
    ELSE SetUpFilled(args,
                     OrNaNs(args.inlet_temp, args.coolant_kind, Shape1(args.data)),
                     OrNaNs(args.outlet_temp, args.coolant_kind, Shape1(args.data)),
                     OrNaNs(args.flow, args.coolant_kind, Shape1(args.data)))

\* interface_modified.update (184-194): the format specification .2f is
\* applied to the string 'N/A' when a coolant value or the heat flux is
\* not-a-number, which raises ValueError.
MidTextRaises(e, i) ==
    LET inlet == e.inlet_temp[i + 1]
        outlet == e.outlet_temp[i + 1]
        flow_l_min == e.flow[i + 1]
        q_hvb == IF IsNaN(flow_l_min) THEN NaN
                 ELSE calculation_heat_flux(flow_l_min, inlet, outlet)
    IN  IsNaN(inlet) \/ IsNaN(outlet) \/ IsNaN(flow_l_min) \/ IsNaN(q_hvb)

\* every layout a session can have active: the caller's list, what a layout
\* file holds, and that with the entries made tuples
SessionOrders(sensors_per_module_list) ==
    LET held == {f.sensor_order :
                    f \in {x \in FileStates(sensors_per_module_list) : x.status = "ok"}}
    IN  CallerLayouts(sensors_per_module_list) \cup held
            \cup {[p \in DOMAIN o |-> AsTuple(o[p])] : o \in held}

LoopFrames == 3

\* the arguments of the session whose loop is followed: a short recording
\* with a coolant series of numbers
LoopArgs ==
    {[data |-> RawMatrix(NumSensors, LoopFrames, 0),
      sensor_identifiers |-> SensorIdentifiers("plain"),
      sensors_per_module_list |-> cfg,
      strings_count |-> Len(cfg),
      inlet_temp |-> CoolantSeries(LoopFrames, 20, 0),
      outlet_temp |-> CoolantSeries(LoopFrames, 21, 0),
      flow |-> CoolantSeries(LoopFrames, 1, 0),
      coolant_kind |-> "list"] : cfg \in SessionConfigs}

\* rows of the tall raw matrix: more than the 16 rows of a layer of one module
TallRows == 18

\* a recording with a sensor for every row of two layers and beyond the first
\* layer: sensor k is row k - 1
TallIdentifiers ==
    [k \in 1..TallRows |->
        [id |-> TupleId(k, "01"), name |-> <<"moduleTemperature", k>>]]

TallArgs ==
    {[data |-> RawMatrix(TallRows, LoopFrames, 0),
      sensor_identifiers |-> TallIdentifiers,
      sensors_per_module_list |-> cfg,
      strings_count |-> Len(cfg),
      inlet_temp |-> CoolantSeries(LoopFrames, 20, 0),
      outlet_temp |-> CoolantSeries(LoopFrames, 21, 0),
      flow |-> CoolantSeries(LoopFrames, 1, 0),
      coolant_kind |-> "list"] : cfg \in SessionConfigs}

\* a record list with one record more than the matrix has rows: the record
\* of sensor NumSensors + 1 of group "05"
LongIdentifiers ==
    Append(SensorIdentifiers("plain"),
           [id |-> TupleId(NumSensors + 1, "05"),
            name |-> <<"moduleTemperature", NumSensors + 1>>])

\* the arguments of callers whose raw matrix and record list do not fit:
\* interactive_battery_layout takes both as they come (interface.py 13-27)
MismatchedArgs ==
    {[data |-> RawMatrix(m.rows, LoopFrames, 0),
      sensor_identifiers |-> m.sensor_identifiers,
      sensors_per_module_list |-> cfg,
      strings_count |-> Len(cfg),
      inlet_temp |-> CoolantSeries(LoopFrames, 20, 0),
      outlet_temp |-> CoolantSeries(LoopFrames, 21, 0),
      flow |-> CoolantSeries(LoopFrames, 1, 0),
      coolant_kind |-> "list"] :
        cfg \in SessionConfigs,
        m \in {[rows |-> NumSensors, sensor_identifiers |-> LongIdentifiers],
               [rows |-> TallRows, sensor_identifiers |-> SensorIdentifiers("plain")]}}

\* the calls of plot_battery_layout a session can make, and those beyond the
\* last frame that a step without clamping would make
SessionCalls ==
    {[data |-> SetUpEnv(im, a).data,
      sensor_identifiers |-> a.sensor_identifiers,
      sensors_per_module_list |-> a.sensors_per_module_list,
      strings_count |-> a.strings_count,
      t_index |-> t,
      custom_sensor_order |-> o] :
        im \in Implementations,
        a \in SessionArgs \cup LoopArgs \cup TallArgs \cup MismatchedArgs,
        t \in 0..(SessionFrames - 1 + StepFrames),
        o \in UNION {SessionOrders(cfg) : cfg \in SessionConfigs}}

\* plot_battery_layout draws from its arguments alone: its graph over the
\* calls of a session
Frames ==
    [c \in SessionCalls |->
        plot_battery_layout(c.data, c.sensor_identifiers, c.sensors_per_module_list,
                            c.strings_count, c.t_index, c.custom_sensor_order)]

FramesHVB ==
    [c \in SessionCalls |->
        plot_battery_layout_HVB(c.data, c.sensor_identifiers, c.sensors_per_module_list,
                                c.strings_count, c.t_index, c.custom_sensor_order)]

\* update / _update: rebuild the heat maps for frame i from the active layout,
\* then the texts and the trend lines.  The result is the new figure content
\* and the exception that left update ("no" for none).  In interface_modified
\* the heat maps are drawn before the coolant text raises, the trend lines
\* after.
UpdateCall(e, order, i) ==
    [data |-> e.data,
     sensor_identifiers |-> e.sensor_identifiers,
     sensors_per_module_list |-> e.sensors_per_module_list,
     strings_count |-> e.strings_count,
     t_index |-> i,
     custom_sensor_order |-> order]

UpdateHeat(i, built) ==
    [t_index |-> i,
     reordered_layers |-> built.reordered_layers,
     reordered_sensor_numbers_layers |-> built.reordered_sensor_numbers_layers,
     statistics |-> built.statistics]

\* line_overall.set_data(time_axis[:t_index + 1],
\* overall_temp_range_over_time[:t_index + 1]) and the same for
\* line_layer_mean_range: the samples the two trend lines are given
TrendLines(e, i) ==
    [overall |-> PySlice(e.overall_temp_range_over_time, 0, i + 1),
     layer_mean |-> PySlice(e.range_mean_layer_temps, 0, i + 1)]

\* what one call of update writes to standard output: the warnings of
\* thermal_dynamics_HVB.plot_battery_layout (245-246); the plot_battery_layout
\* of visualization.py prints nothing
Printed(im, built) ==
    IF im = "thermal_dynamics_HVB" /\ built.raised = "no" THEN built.warnings ELSE {}

\* The coolant texts of a frame: each is 'N/A', a formatted number, or the
\* formatted not-a-number 'nan'; called tells whether calculation_heat_flux
\* was invoked.
CoolantShown(inlet, outlet, fl, heat, called) ==
    [inlet |-> inlet, outlet |-> outlet, flow |-> fl, heat |-> heat, called |-> called]

\* f"{x:.2f}" of a float
Formatted(x) == IF IsNaN(x) THEN "nan" ELSE "number"

\* f"{x:.2f} ..." if not np.isnan(x) else 'N/A'
FormattedUnlessNaN(x) == IF IsNaN(x) THEN "N/A" ELSE "number"

\* flow_value and inlet_display != 'N/A' and outlet_display != 'N/A'
HeatFluxCalled(flow_value, inlet_display, outlet_display) ==
    /\ ~FIsZero(flow_value)
    /\ inlet_display # "N/A"
    /\ outlet_display # "N/A"

\* interface.update (125-132): a flow that is not-a-number counts as 0, and
\* a flow or a heat flux of 0 is shown as 'N/A'
CoolantInterface(inlet, outlet, flow_value) ==
    LET called == HeatFluxCalled(flow_value, FormattedUnlessNaN(inlet),
                                 FormattedUnlessNaN(outlet))
        heat_flux == IF called THEN calculation_heat_flux(flow_value, inlet, outlet)
                     ELSE Fl(0)
    IN  CoolantShown(FormattedUnlessNaN(inlet), FormattedUnlessNaN(outlet),
                     IF FIsZero(flow_value) THEN "N/A" ELSE Formatted(flow_value),
                     IF FIsZero(heat_flux) THEN "N/A" ELSE Formatted(heat_flux),
                     called)

\* thermal_dynamics_HVB.update (470-493): a value is shown unless the series
\* is too short or the value is None, and calculation_heat_flux is called
\* when all three are shown
CoolantHVB(e, i) ==
    LET inlet_display == IF Len(e.inlet_temp) > i THEN Formatted(e.inlet_temp[i + 1])
                         ELSE "N/A"
        outlet_display == IF Len(e.outlet_temp) > i THEN Formatted(e.outlet_temp[i + 1])
                          ELSE "N/A"
        flow_display == IF Len(e.flow) > i THEN Formatted(e.flow[i + 1]) ELSE "N/A"
        called == inlet_display # "N/A" /\ outlet_display # "N/A" /\ flow_display # "N/A"
    IN  CoolantShown(inlet_display, outlet_display, flow_display,
                     IF called
                     THEN Formatted(calculation_heat_flux(e.flow[i + 1], e.inlet_temp[i + 1],
                                                          e.outlet_temp[i + 1]))
                     ELSE "N/A",
                     called)

\* interface_modified.update (184-198) when the text does not raise: all four
\* values are numbers.  calculation_heat_flux is called whenever the flow is
\* a number (188).
CoolantModifiedCalled(e, i) == ~IsNaN(e.flow[i + 1])

\* interface_development.update writes no coolant text
CoolantTexts(im, e, i) ==
    CASE im = "interface" ->
            CoolantInterface(e.inlet_temp[i + 1], e.outlet_temp[i + 1],
                             IF IsNaN(e.flow[i + 1]) THEN Fl(0) ELSE e.flow[i + 1])
      [] im = "thermal_dynamics_HVB" -> CoolantHVB(e, i)
      [] im = "interface_modified" ->
            CoolantShown("number", "number", "number", "number", TRUE)
      [] im = "interface_development" -> NoFrame.coolant

UpdateFigure(im, e, i, shown, built) ==
    IF built.raised # "no"
    THEN [frame |-> [shown EXCEPT !.printed = {}], raised |-> built.raised]
    ELSE IF im = "interface_modified" /\ MidTextRaises(e, i)
    THEN [frame |-> [shown EXCEPT !.heat = UpdateHeat(i, built), !.printed = {},
                                  !.coolant.called = CoolantModifiedCalled(e, i)],
          raised |-> "ValueError"]
    ELSE [frame |-> [heat |-> UpdateHeat(i, built), trend |-> TrendLines(e, i),
                     printed |-> Printed(im, built),
                     coolant |-> CoolantTexts(im, e, i)],
          raised |-> "no"]

update(im, e, order, i, shown) ==
    UpdateFigure(im, e, i, shown,
                 IF im = "thermal_dynamics_HVB" THEN FramesHVB[UpdateCall(e, order, i)]
                 ELSE Frames[UpdateCall(e, order, i)])

Event(handler, raised, file) == [handler |-> handler, raised |-> raised, file |-> file]

(***************************************************************************)
(* Spec: one session.                                                      *)
(***************************************************************************)
Init ==
    /\ impl \in Implementations
    /\ phase = "called"
    /\ env \in SessionArgs \cup TallArgs
    /\ lists \in {[caller |-> o, loaded |-> <<>>] :
                    o \in CallerLayouts(env.sensors_per_module_list)}
    /\ order_ref = "caller"
    /\ slider_val = 0
    /\ playing = FALSE
    /\ frame = NoFrame
    /\ last_event = Pending
    /\ hf_args = Pending
    /\ hf_result = Pending
    /\ pbl_args = Pending
    /\ pbl_result = Pending
    /\ hvb_result = Pending
    /\ NoLoop
    /\ NoCache
    /\ NoExtract

\* interactive_battery_layout up to plt.show(): the set-up and update(0).  An
\* exception of update(0) leaves the function: no session.
interactive_battery_layout ==
    /\ phase = "called"
    /\ \E e \in {SetUpEnv(impl, env)} :
         IF e.raised # "no"
         THEN /\ env' = e
              /\ frame' = frame
              /\ phase' = "failed"
              /\ last_event' = Event("interactive_battery_layout", e.raised, None)
         ELSE \E u \in {update(impl, e, ActiveOrder, 0, NoFrame)} :
                /\ env' = e
                /\ frame' = u.frame
                /\ phase' = IF u.raised = "no" THEN "running" ELSE "failed"
                /\ last_event' = Event("interactive_battery_layout", u.raised, None)
    /\ UNCHANGED <<impl, lists, order_ref, slider_val, playing>>
    /\ UNCHANGED <<fluxVars, frameVars, loopVars, cacheVars, extractVars>>

\* slider.set_val(new) with update connected by slider.on_changed: the value
\* is stored, then update runs
SetVal(handler, new) ==
    \E u \in {update(impl, env, ActiveOrder, new, frame)} :
        /\ slider_val' = new
        /\ frame' = u.frame
        /\ last_event' = Event(handler, u.raised, None)
        /\ UNCHANGED <<impl, phase, env, lists, order_ref, playing>>
        /\ UNCHANGED <<fluxVars, frameVars, loopVars, cacheVars, extractVars>>

\* the user drags the slider (valstep 1, 0 .. total_frames - 1)
SliderChanged ==
    /\ phase = "running"
    /\ \E new \in 0..(env.total_frames - 1) : SetVal("update", new)

\* toggle_play / _toggle_play / the lambda of interface.py
TogglePlay ==
    /\ phase = "running"
    /\ playing' = ~playing
    /\ last_event' = Event("toggle_play", "no", None)
    /\ UNCHANGED <<impl, phase, env, lists, order_ref, slider_val, frame>>
    /\ UNCHANGED <<fluxVars, frameVars, loopVars, cacheVars, extractVars>>

\* thermal_dynamics_HVB.fast_forward; min(total_frames - 1, slider.val + 5)
\* in the other modules
FastForwardTarget(im, val, total_frames) ==
    IF im = "thermal_dynamics_HVB"
    THEN IF val < total_frames - StepFrames THEN val + StepFrames ELSE total_frames - 1
    ELSE Min(total_frames - 1, val + StepFrames)

FastForward ==
    /\ phase = "running"
    /\ SetVal("fast_forward", FastForwardTarget(impl, slider_val, env.total_frames))

\* thermal_dynamics_HVB.rewind; max(0, slider.val - 5) in the other modules
RewindTarget(im, val) ==
    IF im = "thermal_dynamics_HVB"
    THEN IF val > StepFrames THEN val - StepFrames ELSE 0
    ELSE Max(0, val - StepFrames)

Rewind ==
    /\ phase = "running"
    /\ SetVal("rewind", RewindTarget(impl, slider_val))

\* np.nanmax(data, axis=0)
OverallMax(data) == [t \in 1..Shape1(data) |-> NanMax(ColumnAt(data, t - 1))]

\* np.nanargmax: the first index of the largest sample that is a number;
\* -1 stands for ValueError (all samples not-a-number)
NanArgMax(seq) ==
    IF IsNaN(NanMax(seq)) THEN -1
    ELSE SetMin({k \in 0..(Len(seq) - 1) : seq[k + 1] = NanMax(seq)})

\* jump_to_max_temp (interface.py), the lambda of btn_max
\* (interface_development.py)
JumpToMaxTemp ==
    /\ phase = "running"
    /\ impl \in {"interface", "interface_development"}
    /\ \E max_idx \in {NanArgMax(OverallMax(env.data))} :
           IF max_idx = -1
           THEN /\ last_event' = Event("jump_to_max_temp", "ValueError", None)
                /\ UNCHANGED <<impl, phase, env, lists, order_ref,
                               slider_val, playing, frame>>
                /\ UNCHANGED <<fluxVars, frameVars, loopVars, cacheVars, extractVars>>
           ELSE SetVal("jump_to_max_temp", max_idx)

\* a variant that steps on without wrapping
AnimateTargetNoWrap(im, val, total_frames) == val + 1

\* a variant of the tick that stays on the last frame
AnimateTargetNoReset(im, val, total_frames) ==
    IF val < total_frames - 1 THEN val + 1 ELSE val

\* the frame the timer tick moves to
AnimateTarget(im, val, total_frames) ==
    IF im = "interface_modified" THEN (val + 1) % total_frames
    ELSE IF im = "interface_development"
    THEN IF val + 1 > total_frames - 1 THEN 0 ELSE val + 1
    ELSE IF val < total_frames - 1 THEN val + 1 ELSE 0

\* a variant in which the tick moves the slider whatever the flag says
TickAdvancesAlways(flag) == TRUE

\* if playing[0]: / if playing:
TickAdvances(flag) == flag

\* animate / _animate: one tick of the FuncAnimation timer
Animate ==
    /\ phase = "running"
    /\ IF TickAdvances(playing)
       THEN SetVal("animate", AnimateTarget(impl, slider_val, env.total_frames))
       ELSE /\ last_event' = Event("animate", "no", None)
            /\ UNCHANGED <<impl, phase, env, lists, order_ref,
                           slider_val, playing, frame>>
            /\ UNCHANGED <<fluxVars, frameVars, loopVars, cacheVars, extractVars>>

\* [tuple(x) for x in sensor_order]
Tuples(sensor_order) == [p \in DOMAIN sensor_order |-> AsTuple(sensor_order[p])]

\* a layout handler that changed nothing but the record of the event
LayoutEventOnly(handler, raised, file) ==
    /\ last_event' = Event(handler, raised, file)
    /\ UNCHANGED <<impl, phase, env, lists, order_ref, slider_val, playing, frame>>
    /\ UNCHANGED <<fluxVars, frameVars, loopVars, cacheVars, extractVars>>

\* a layout handler that installed the layout and ran update(slider.val)
LayoutInstalled(handler, file, new_lists, new_ref, swallow) ==
    \E u \in {update(impl, env, new_lists[new_ref], slider_val, frame)} :
        /\ lists' = new_lists
        /\ order_ref' = new_ref
        /\ frame' = u.frame
        /\ last_event' = Event(handler, IF swallow THEN "no" ELSE u.raised, file)
        /\ UNCHANGED <<impl, phase, env, slider_val, playing>>
        /\ UNCHANGED <<fluxVars, frameVars, loopVars, cacheVars, extractVars>>

\* interface.update_layout (42-52), connected to radio_layout: the entries
\* become tuples, the active list object is overwritten in place, update
\* runs; every exception is caught and printed.
update_layout(file) ==
    /\ phase = "running"
    /\ impl = "interface"
    /\ IF file.status = "ok"
       THEN LayoutInstalled("update_layout", file,
                [lists EXCEPT ![order_ref] = Tuples(file.sensor_order)],
                order_ref, TRUE)
       ELSE LayoutEventOnly("update_layout", "no", file)

\* interface.on_layout_change (187-190) with load_sensor_order_from_json
\* (172-185), connected to radio: the loaded list is installed as json.load
\* gave it; a missing file gives the active list itself; json.load and
\* config["sensor_order"] raise out of the handler.
on_layout_change(file) ==
    /\ phase = "running"
    /\ impl = "interface"
    /\ CASE file.status = "ok" ->
                LayoutInstalled("on_layout_change", file,
                    [lists EXCEPT !.loaded = file.sensor_order], "loaded", FALSE)
         [] file.status = "missing" ->
                LayoutInstalled("on_layout_change", file, lists, order_ref, FALSE)
         [] file.status = "invalid" ->
                LayoutEventOnly("on_layout_change", "JSONDecodeError", file)
         [] file.status = "nokey" ->
                LayoutEventOnly("on_layout_change", "KeyError", file)

\* interface_modified._layout_changed (223-226) with
\* load_sensor_order_from_json (31-52): the loaded list as json.load gave it,
\* or a copy of the active list when the file is missing, is no JSON or has
\* no sensor_order.
_layout_changed(file) ==
    /\ phase = "running"
    /\ impl = "interface_modified"
    /\ IF file.status = "ok"
       THEN LayoutInstalled("_layout_changed", file,
                [lists EXCEPT !.loaded = file.sensor_order], "loaded", FALSE)
       ELSE LayoutInstalled("_layout_changed", file,
                [lists EXCEPT !.loaded = ActiveOrder], "loaded", FALSE)

\* interface_development._layout_change (220-225) with
\* load_sensor_order_from_json (36-43): the entries become tuples; a missing
\* file gives [], and an empty list is not installed; json.load and
\* ["sensor_order"] raise out of the handler.
_layout_change(file) ==
    /\ phase = "running"
    /\ impl = "interface_development"
    /\ CASE file.status = "ok" /\ Len(file.sensor_order) > 0 ->
                LayoutInstalled("_layout_change", file,
                    [lists EXCEPT !.loaded = Tuples(file.sensor_order)], "loaded", FALSE)
         [] file.status = "ok" /\ Len(file.sensor_order) = 0 ->
                LayoutInstalled("_layout_change", file, lists, order_ref, FALSE)
         [] file.status = "missing" ->
                LayoutInstalled("_layout_change", file, lists, order_ref, FALSE)
         [] file.status = "invalid" ->
                LayoutEventOnly("_layout_change", "JSONDecodeError", file)
         [] file.status = "nokey" ->
                LayoutEventOnly("_layout_change", "KeyError", file)

\* a click on a radio button reads the layout file of its label
LayoutFiles == FileStates(env.sensors_per_module_list)

ClickRadioLayout == \E file \in LayoutFiles : update_layout(file)

ClickRadio ==
    \E file \in LayoutFiles :
        \/ on_layout_change(file)
        \/ _layout_changed(file)
        \/ _layout_change(file)

Next ==
    \/ interactive_battery_layout
    \/ SliderChanged
    \/ TogglePlay
    \/ FastForward
    \/ Rewind
    \/ JumpToMaxTemp
    \/ Animate
    \/ ClickRadioLayout
    \/ ClickRadio

Spec == Init /\ [][Next]_vars

\* a session called with a raw matrix and a record list that do not fit
InitMismatched ==
    /\ impl \in Implementations
    /\ phase = "called"
    /\ env \in MismatchedArgs
    /\ lists \in {[caller |-> o, loaded |-> <<>>] :
                    o \in CallerLayouts(env.sensors_per_module_list)}
    /\ order_ref = "caller"
    /\ slider_val = 0
    /\ playing = FALSE
    /\ frame = NoFrame
    /\ last_event = Pending
    /\ hf_args = Pending
    /\ hf_result = Pending
    /\ pbl_args = Pending
    /\ pbl_result = Pending
    /\ hvb_result = Pending
    /\ NoLoop
    /\ NoCache
    /\ NoExtract

SpecMismatched == InitMismatched /\ [][Next]_vars

(***************************************************************************)
(* SpecPlay: a session in which the user presses play once and then leaves *)
(* the figure alone.  The timer of a FuncAnimation that the function keeps *)
(* in a variable (anim = FuncAnimation(...)) fires every 200 ms as long as *)
(* plt.show() runs: its tick is taken again and again.  interface_modified *)
(* drops the FuncAnimation object it creates, so nothing there makes the   *)
(* timer fire: its tick may happen or not.                                 *)
(***************************************************************************)
KeepsAnimation(im) == im # "interface_modified"

PressPlay == ~playing /\ TogglePlay

NextPlay ==
    \/ interactive_battery_layout
    \/ PressPlay
    \/ Animate

SpecPlay ==
    /\ Init
    /\ [][NextPlay]_vars
    /\ WF_vars(KeepsAnimation(impl) /\ Animate)

(***************************************************************************)
(* The event loop of plt.show() at the grain of statements.  The timer of  *)
(* FuncAnimation and the widgets post events; the loop takes one event     *)
(* when no handler runs and calls its handler, which runs to its end: no   *)
(* handler calls plt.pause or flush_events and there is no second thread.  *)
(* A frame is aggregated layer by layer (visualization.py 29-57) from the  *)
(* list object that update passed to plot_battery_layout.                  *)
(***************************************************************************)
MaxPending == 1

MaxDepth == 2

\* a variant: events are also taken while a handler runs (as a handler
\* that called plt.pause would allow)
LoopReentrant == Len(stack) < MaxDepth

\* the loop takes the next event when the handler before it has returned
LoopIdle == stack = <<>>

LoopEvent(widget, file) == [widget |-> widget, file |-> file]

\* what the layout files hold while it runs
LoopFiles(sensors_per_module_list) ==
    {FileOk(LayoutOf(TotalSpan(sensors_per_module_list), 3, "list")), FileInvalidJson}

\* the widgets of the implementation and the layout files their labels name
\* (the slider stands for every widget that ends in slider.set_val: the
\* slider itself, fast forward, rewind and the jump to the hottest frame)
LoopEvents(im, sensors_per_module_list) ==
    {LoopEvent("timer", None), LoopEvent("button_play", None),
     LoopEvent("slider", None)}
        \cup (IF im = "thermal_dynamics_HVB" THEN {}
              ELSE {LoopEvent("radio", f) : f \in LoopFiles(sensors_per_module_list)})
        \cup (IF im = "interface"
              THEN {LoopEvent("radio_layout", f) : f \in LoopFiles(sensors_per_module_list)}
              ELSE {})

\* what a handler of a layout radio button has done when it reaches
\* update(slider.val), or when it ends without calling it
LayoutStep(handler, raised, new_lists, new_ref, calls_update, swallow) ==
    [handler |-> handler, raised |-> raised, lists |-> new_lists, ref |-> new_ref,
     calls_update |-> calls_update, swallow |-> swallow]

\* the statements of update_layout, on_layout_change, _layout_changed and
\* _layout_change before update(slider.val)
LayoutStatements(im, widget, file, ls, ref) ==
    CASE widget = "radio_layout" ->
            IF file.status = "ok"
            THEN LayoutStep("update_layout", "no",
                            [ls EXCEPT ![ref] = Tuples(file.sensor_order)], ref, TRUE, TRUE)
            ELSE LayoutStep("update_layout", "no", ls, ref, FALSE, TRUE)
      [] widget = "radio" /\ im = "interface" ->
           (CASE file.status = "ok" ->
                    LayoutStep("on_layout_change", "no",
                               [ls EXCEPT !.loaded = file.sensor_order], "loaded", TRUE, FALSE)
              [] file.status = "missing" ->
                    LayoutStep("on_layout_change", "no", ls, ref, TRUE, FALSE)
              [] file.status = "invalid" ->
                    LayoutStep("on_layout_change", "JSONDecodeError", ls, ref, FALSE, FALSE)
              [] file.status = "nokey" ->
                    LayoutStep("on_layout_change", "KeyError", ls, ref, FALSE, FALSE))
      [] widget = "radio" /\ im = "interface_modified" ->
            IF file.status = "ok"
            THEN LayoutStep("_layout_changed", "no",
                            [ls EXCEPT !.loaded = file.sensor_order], "loaded", TRUE, FALSE)
            ELSE LayoutStep("_layout_changed", "no",
                            [ls EXCEPT !.loaded = ls[ref]], "loaded", TRUE, FALSE)
      [] widget = "radio" /\ im = "interface_development" ->
           (CASE file.status = "ok" /\ Len(file.sensor_order) > 0 ->
                    LayoutStep("_layout_change", "no",
                               [ls EXCEPT !.loaded = Tuples(file.sensor_order)], "loaded",
                               TRUE, FALSE)
              [] file.status = "ok" /\ Len(file.sensor_order) = 0 ->
                    LayoutStep("_layout_change", "no", ls, ref, TRUE, FALSE)
              [] file.status = "missing" ->
                    LayoutStep("_layout_change", "no", ls, ref, TRUE, FALSE)
              [] file.status = "invalid" ->
                    LayoutStep("_layout_change", "JSONDecodeError", ls, ref, FALSE, FALSE)
              [] file.status = "nokey" ->
                    LayoutStep("_layout_change", "KeyError", ls, ref, FALSE, FALSE))

\* A call of update in progress: the handler that made it, the time index,
\* the list object passed as custom_sensor_order, the next layer, the slices
\* read (layer_sensor_indices) and the grids built so far.
Activation(handler, file, t_index, ref, swallow) ==
    [handler |-> handler, file |-> file, t_index |-> t_index, ref |-> ref,
     swallow |-> swallow, layer |-> 0, seen |-> <<>>,
     reordered_layers |-> <<>>, reordered_sensor_numbers_layers |-> <<>>]

\* an event arrives while the session runs, whether or not a handler runs
Post ==
    /\ phase = "running"
    /\ Len(pending) < MaxPending
    /\ \E ev \in LoopEvents(impl, env.sensors_per_module_list) : pending' = Append(pending, ev)
    /\ UNCHANGED <<sessionVars, stack>>
    /\ UNCHANGED <<fluxVars, frameVars, cacheVars, extractVars>>

\* a variant of a handler that calls update a second time from inside the
\* first call
StartUpdateTwice(handler, file, t_index, ref, swallow) ==
    /\ stack' = Append(Append(stack, Activation(handler, file, t_index, ref, swallow)),
                       Activation(handler, file, t_index, ref, swallow))
    /\ last_event' = last_event

\* update(...) up to the first layer: data[:, t_index] is read
StartUpdate(handler, file, t_index, ref, swallow) ==
    IF ColumnIndexRaises(env.data, t_index)
    THEN /\ last_event' = Event(handler, IF swallow THEN "no" ELSE "IndexError", file)
         /\ stack' = stack
    ELSE /\ stack' = Append(stack, Activation(handler, file, t_index, ref, swallow))
         /\ last_event' = last_event

\* the handler of the event, up to its call of update
Handle(ev) ==
    CASE ev.widget = "timer" ->
            IF TickAdvances(playing)
            THEN \E new \in {AnimateTarget(impl, slider_val, env.total_frames)} :
                    /\ slider_val' = new
                    /\ StartUpdate("animate", None, new, order_ref, FALSE)
                    /\ UNCHANGED <<playing, lists, order_ref>>
            ELSE /\ last_event' = Event("animate", "no", None)
                 /\ UNCHANGED <<slider_val, playing, lists, order_ref, stack>>
      [] ev.widget = "button_play" ->
            /\ playing' = ~playing
            /\ last_event' = Event("toggle_play", "no", None)
            /\ UNCHANGED <<slider_val, lists, order_ref, stack>>
      [] ev.widget = "slider" ->
            \E new \in 0..(env.total_frames - 1) :
                /\ slider_val' = new
                /\ StartUpdate("update", None, new, order_ref, FALSE)
                /\ UNCHANGED <<playing, lists, order_ref>>
      [] ev.widget \in {"radio", "radio_layout"} ->
            \E st \in {LayoutStatements(impl, ev.widget, ev.file, lists, order_ref)} :
                /\ lists' = st.lists
                /\ order_ref' = st.ref
                /\ UNCHANGED <<slider_val, playing>>
                /\ IF st.calls_update
                   THEN StartUpdate(st.handler, ev.file, slider_val, st.ref, st.swallow)
                   ELSE /\ last_event' = Event(st.handler, st.raised, ev.file)
                        /\ stack' = stack

\* the loop takes the first waiting event and calls its handler
Dispatch ==
    /\ phase = "running"
    /\ LoopIdle
    /\ pending # <<>>
    /\ pending' = Tail(pending)
    /\ Handle(Head(pending))
    /\ UNCHANGED <<impl, phase, env, frame>>
    /\ UNCHANGED <<fluxVars, frameVars, cacheVars, extractVars>>

\* the activation after one more pass of the loop over the layers
LayerDone(a, order) ==
    [a EXCEPT
        !.layer = @ + 1,
        !.seen = Append(@, LayerSensorIndices(order, env.sensors_per_module_list, a.layer)),
        !.reordered_layers =
            Append(@, ReorderedDataLayer(env.data, env.sensor_identifiers,
                          env.sensors_per_module_list, a.layer, a.t_index, order)),
        !.reordered_sensor_numbers_layers =
            Append(@, ReorderedSensorNumbersLayer(env.sensor_identifiers,
                          env.sensors_per_module_list, a.layer, order))]

\* what plot_battery_layout returns to update after the last layer (the
\* matrix of a session has a row for every sensor record)
FrameBuilt(im, a, order) ==
    IF im = "thermal_dynamics_HVB"
    THEN WithWarnings(Built(a.reordered_layers, a.reordered_sensor_numbers_layers),
                      LayerWarnings(env.sensors_per_module_list, env.strings_count, order))
    ELSE Built(a.reordered_layers, a.reordered_sensor_numbers_layers)

\* the innermost handler goes on: one layer of the frame, and after the last
\* layer the texts and the trend lines; then the handler returns
RunLayer ==
    /\ stack # <<>>
    /\ \E a \in {LayerDone(stack[Len(stack)], lists[stack[Len(stack)].ref])} :
          IF a.layer < env.strings_count
          THEN /\ stack' = [stack EXCEPT ![Len(stack)] = a]
               /\ UNCHANGED <<frame, last_event>>
          ELSE \E u \in {UpdateFigure(impl, env, a.t_index, frame,
                                      FrameBuilt(impl, a, lists[a.ref]))} :
                  /\ stack' = SubSeq(stack, 1, Len(stack) - 1)
                  /\ frame' = u.frame
                  /\ last_event' = Event(a.handler, IF a.swallow THEN "no" ELSE u.raised,
                                          a.file)
    /\ UNCHANGED <<impl, phase, env, lists, order_ref, slider_val, playing, pending>>
    /\ UNCHANGED <<fluxVars, frameVars, cacheVars, extractVars>>

\* the set-up runs before plt.show() starts the loop
LoopSetUp == interactive_battery_layout

NextLoop ==
    \/ LoopSetUp
    \/ Post
    \/ Dispatch
    \/ RunLayer

InitLoop ==
    /\ impl \in Implementations
    /\ phase = "called"
    /\ env \in LoopArgs
    /\ lists = [caller |-> LayoutOf(TotalSpan(env.sensors_per_module_list), 0, "tuple"),
                loaded |-> <<>>]
    /\ order_ref = "caller"
    /\ slider_val = 0
    /\ playing = FALSE
    /\ frame = NoFrame
    /\ last_event = Pending
    /\ hf_args = Pending
    /\ hf_result = Pending
    /\ pbl_args = Pending
    /\ pbl_result = Pending
    /\ hvb_result = Pending
    /\ NoLoop
    /\ NoCache
    /\ NoExtract

SpecLoop == InitLoop /\ [][NextLoop]_vars

(***************************************************************************)
(* Claims about calculation_heat_flux (SpecFlux).                          *)
(***************************************************************************)
HfCalled == hf_args # Pending /\ hf_result # Pending

HfFinite == /\ ~IsNaN(hf_args.volumenstrom)
            /\ ~IsNaN(hf_args.temp_inlet)
            /\ ~IsNaN(hf_args.temp_outlet)

\* C9: calculation_heat_flux returns exactly 0 whenever the flow is 0, for any
\* inlet and outlet temperature (not-a-number included), and whenever outlet
\* equals inlet, for any nonzero flow; the test is exact: the smallest nonzero
\* flow and temperature difference already give a nonzero result.
C9_ZeroFlux ==
    HfCalled =>
        /\ hf_args.volumenstrom = Fl(0) => hf_result.value = Fl(0)
        /\ (/\ ~IsNaN(hf_args.temp_inlet)
            /\ hf_args.temp_outlet = hf_args.temp_inlet
            /\ hf_args.volumenstrom # Fl(0)) => hf_result.value = Fl(0)
        /\ (/\ HfFinite
            /\ hf_args.volumenstrom # Fl(0)
            /\ hf_args.temp_outlet # hf_args.temp_inlet) => hf_result.value # Fl(0)

C9_Witness ==
    /\ HfCalled
    /\ hf_args.volumenstrom = Fl(0)
    /\ IsNaN(hf_args.temp_inlet)
    /\ hf_result.value = Fl(0)

PblCalled == pbl_args # Pending /\ pbl_result # Pending /\ hvb_result = Pending

RECURSIVE ClaimOffset(_, _)
\* the sum of 16 * modulesPerLayer[k] over all k < L
ClaimOffset(modulesPerLayer, L) ==
    IF L = 0 THEN 0 ELSE ClaimOffset(modulesPerLayer, L - 1) + 16 * modulesPerLayer[L]

\* all cells <<L, i, j>> of a frame
ClaimCells(modulesPerLayer) ==
    {c \in (0..(Len(modulesPerLayer) - 1)) \X (0..3)
           \X (0..(4 * SetMax({modulesPerLayer[k] : k \in DOMAIN modulesPerLayer}) - 1)) :
        c[3] < 4 * modulesPerLayer[c[1] + 1]}

\* the flat position of cell <<L, i, j>> in the layer-concatenated layout
ClaimFlatPos(modulesPerLayer, c) ==
    ClaimOffset(modulesPerLayer, c[1]) + c[2] * (4 * modulesPerLayer[c[1] + 1]) + c[3]

\* the rows whose SensorId the entry equals
ClaimRowsNamed(sensor_identifiers, entry) ==
    {k \in DOMAIN sensor_identifiers : sensor_identifiers[k].id = entry}

ClaimValue(result, c) == result.reordered_layers[c[1] + 1][<<c[2], c[3]>>]

ClaimIdent(result, c) == result.reordered_sensor_numbers_layers[c[1] + 1][<<c[2], c[3]>>]

\* C1: for every valid time index, every layout (empty, too short, too long)
\* and every layer L, the value grid and the identity grid have shape exactly
\* 4 x (4 * sensors_per_module_list[L]), and there is one pair per layer.
C1_GridShape ==
    PblCalled =>
        /\ pbl_result.raised = "no"
        /\ Len(pbl_result.reordered_layers) = pbl_args.strings_count
        /\ Len(pbl_result.reordered_sensor_numbers_layers) = pbl_args.strings_count
        /\ \A L \in 0..(pbl_args.strings_count - 1) :
            LET shape == (0..3) \X (0..(4 * pbl_args.sensors_per_module_list[L + 1] - 1))
            IN  /\ DOMAIN pbl_result.reordered_layers[L + 1] = shape
                /\ DOMAIN pbl_result.reordered_sensor_numbers_layers[L + 1] = shape

C1_Witness ==
    /\ PblCalled
    /\ pbl_args.sensors_per_module_list = <<1, 2>>
    /\ Len(pbl_args.custom_sensor_order) > TotalSpan(pbl_args.sensors_per_module_list)
    /\ Cardinality(DOMAIN pbl_result.reordered_layers[2]) = 32

\* C2: cell (i, j) of layer L holds the value at the time index, and the
\* record, of the sensor named by the layout entry at flat position
\* offset_L + i * W + j (when the layout has that entry and a row has that id);
\* the flat positions of all cells are exactly 0 .. total span - 1, each once.
C2_CellFromFlatPosition ==
    PblCalled =>
        LET mpl == pbl_args.sensors_per_module_list
            cells == ClaimCells(mpl)
        IN  /\ {ClaimFlatPos(mpl, c) : c \in cells} = 0..(TotalSpan(mpl) - 1)
            /\ Cardinality(cells) = TotalSpan(mpl)
            /\ \A c \in cells :
                LET pos == ClaimFlatPos(mpl, c)
                IN  pos < Len(pbl_args.custom_sensor_order) =>
                      LET rows == ClaimRowsNamed(pbl_args.sensor_identifiers,
                                                 pbl_args.custom_sensor_order[pos + 1])
                      IN  rows # {} =>
                            \E k \in rows :
                                /\ ClaimValue(pbl_result, c)
                                       = pbl_args.data[k][pbl_args.t_index + 1]
                                /\ ClaimIdent(pbl_result, c) = pbl_args.sensor_identifiers[k]

C2_Witness ==
    /\ PblCalled
    /\ pbl_args.sensors_per_module_list = <<2, 1>>
    /\ Len(pbl_args.custom_sensor_order) = 48
    /\ ~IsNaN(ClaimValue(pbl_result, <<1, 3, 3>>))
    /\ ClaimIdent(pbl_result, <<1, 3, 3>>).id = pbl_args.custom_sensor_order[48]

\* the layout positions that are rendered and name a SensorId of no record
ClaimAbsentPositions ==
    {p \in 1..Min(Len(pbl_args.custom_sensor_order),
                  TotalSpan(pbl_args.sensors_per_module_list)) :
        ClaimRowsNamed(pbl_args.sensor_identifiers, pbl_args.custom_sensor_order[p]) = {}}

\* the frame of the same call with layout entry p naming the sensor of row 1
ClaimFrameWithResolved(p) ==
    plot_battery_layout(pbl_args.data, pbl_args.sensor_identifiers,
        pbl_args.sensors_per_module_list, pbl_args.strings_count, pbl_args.t_index,
        [pbl_args.custom_sensor_order EXCEPT ![p] = pbl_args.sensor_identifiers[1].id])

\* C3: a SensorId in the layout that no record has gives a not-a-number cell
\* with null identity, raises nothing, and every other cell has the value and
\* identity it has when that entry resolves.
C3_AbsentSensor ==
    PblCalled =>
        LET mpl == pbl_args.sensors_per_module_list
            cells == ClaimCells(mpl)
            absent == ClaimAbsentPositions
        IN  /\ pbl_result.raised = "no"
            /\ \A c \in cells :
                (ClaimFlatPos(mpl, c) + 1) \in absent =>
                    /\ IsNaN(ClaimValue(pbl_result, c))
                    /\ ClaimIdent(pbl_result, c) = None
            /\ \A p \in (IF absent = {} THEN {} ELSE {SetMin(absent), SetMax(absent)}) :
                LET other == ClaimFrameWithResolved(p)
                IN  \A c \in cells :
                        ClaimFlatPos(mpl, c) + 1 # p =>
                            /\ ClaimValue(pbl_result, c) = ClaimValue(other, c)
                            /\ ClaimIdent(pbl_result, c) = ClaimIdent(other, c)

C3_Witness ==
    /\ PblCalled
    /\ pbl_args.sensors_per_module_list = <<1, 1>>
    /\ Len(pbl_args.custom_sensor_order) = 32
    /\ pbl_args.custom_sensor_order[5] = TupleId(NumSensors + 1, "01")
    /\ pbl_args.custom_sensor_order[7] = TupleId(2, "05")
    /\ IsNaN(ClaimValue(pbl_result, <<0, 1, 0>>))
    /\ ClaimIdent(pbl_result, <<0, 1, 0>>) = None
    /\ ClaimIdent(pbl_result, <<0, 1, 2>>) = None
    /\ ~IsNaN(ClaimValue(pbl_result, <<0, 0, 1>>))

\* C4: when sensor_identifiers has the same SensorId on several rows, every
\* layout entry naming it resolves to the smallest such row index, in every
\* frame and every layer.
C4_FirstMatch ==
    PblCalled =>
        LET mpl == pbl_args.sensors_per_module_list
        IN  \A c \in ClaimCells(mpl) :
                LET pos == ClaimFlatPos(mpl, c)
                IN  pos < Len(pbl_args.custom_sensor_order) =>
                      LET rows == ClaimRowsNamed(pbl_args.sensor_identifiers,
                                                 pbl_args.custom_sensor_order[pos + 1])
                      IN  rows # {} =>
                            LET first == SetMin(rows)
                            IN  /\ ClaimIdent(pbl_result, c)
                                       = pbl_args.sensor_identifiers[first]
                                /\ ClaimValue(pbl_result, c)
                                       = pbl_args.data[first][pbl_args.t_index + 1]

C4_Witness ==
    /\ PblCalled
    /\ pbl_args.sensors_per_module_list = <<1, 1>>
    /\ pbl_args.sensor_identifiers[3].id = pbl_args.sensor_identifiers[4].id
    /\ Len(pbl_args.custom_sensor_order) >= 18
    /\ pbl_args.custom_sensor_order[17] = pbl_args.sensor_identifiers[4].id
    /\ ClaimIdent(pbl_result, <<1, 0, 0>>) = pbl_args.sensor_identifiers[3]
    /\ ClaimValue(pbl_result, <<1, 0, 0>>) = pbl_args.data[3][pbl_args.t_index + 1]
    /\ pbl_args.data[3][pbl_args.t_index + 1] # pbl_args.data[4][pbl_args.t_index + 1]

\* C8: with k layout entries and total span S, the cells at flat positions
\* >= k are not-a-number with null identity, the number of cells that are not
\* not-a-number is the number of entries at positions < min(k, S) that resolve
\* to a sample that is not not-a-number, entries at positions >= S are never
\* rendered (the frame is that of the first S entries), and nothing is raised.
C8_ShortAndLongLayouts ==
    PblCalled =>
        LET mpl == pbl_args.sensors_per_module_list
            cells == ClaimCells(mpl)
            k == Len(pbl_args.custom_sensor_order)
            S == TotalSpan(mpl)
            resolving ==
                {p \in 1..Min(k, S) :
                    \E r \in ClaimRowsNamed(pbl_args.sensor_identifiers,
                                            pbl_args.custom_sensor_order[p]) :
                        /\ \A q \in ClaimRowsNamed(pbl_args.sensor_identifiers,
                                                   pbl_args.custom_sensor_order[p]) : r <= q
                        /\ ~IsNaN(pbl_args.data[r][pbl_args.t_index + 1])}
        IN  /\ pbl_result.raised = "no"
            /\ \A c \in cells :
                ClaimFlatPos(mpl, c) >= k =>
                    /\ IsNaN(ClaimValue(pbl_result, c))
                    /\ ClaimIdent(pbl_result, c) = None
            /\ Cardinality({c \in cells : ~IsNaN(ClaimValue(pbl_result, c))})
                   = Cardinality(resolving)
            /\ \A c \in cells :
                ~IsNaN(ClaimValue(pbl_result, c)) => (ClaimFlatPos(mpl, c) + 1) \in resolving
            /\ k > S =>
                pbl_result = plot_battery_layout(pbl_args.data, pbl_args.sensor_identifiers,
                                 mpl, pbl_args.strings_count, pbl_args.t_index,
                                 SubSeq(pbl_args.custom_sensor_order, 1, S))

\* the scenario of the specification: one layer of one module, sensors
\* (1,"01") .. (4,"01"), a layout of these four entries
C8_Witness ==
    /\ PblCalled
    /\ pbl_args.sensors_per_module_list = <<1>>
    /\ pbl_args.custom_sensor_order
           = <<TupleId(1, "01"), TupleId(2, "01"), TupleId(3, "01"), TupleId(4, "01")>>
    /\ \A j \in 0..3 : ClaimIdent(pbl_result, <<0, 0, j>>) # None
    /\ \A i \in 1..3 : \A j \in 0..3 : IsNaN(ClaimValue(pbl_result, <<0, i, j>>))

\* C7 (as claimed): a layout-length warning is produced if and only if the
\* layout length differs from the sum over the layers of 4 * modulesPerLayer[i] * 4,
\* and it reports that expected count and the actual length.
C7_WarningIffLengthDiffers ==
    (pbl_args # Pending /\ hvb_result # Pending) =>
        LET S == TotalSpan(pbl_args.sensors_per_module_list)
            k == Len(pbl_args.custom_sensor_order)
        IN  /\ (hvb_result.warnings # {}) <=> (k # S)
            /\ \A w \in hvb_result.warnings : w.expected = S /\ w.got = k

(***************************************************************************)
(* Claims about the layout radio buttons of a session (Spec).              *)
(***************************************************************************)
LayoutChangeHandlers ==
    {"update_layout", "on_layout_change", "_layout_changed", "_layout_change"}

\* a layout handler ran last
LayoutChangeRan == phase = "running" /\ last_event.handler \in LayoutChangeHandlers

\* the rows of the sensor a layout entry names: index and group tag both match
ClaimRowsOfSensor(sensor_identifiers, entry) ==
    {k \in DOMAIN sensor_identifiers :
        /\ sensor_identifiers[k].id.num = entry.num
        /\ sensor_identifiers[k].id.tag = entry.tag}

\* C5 (as claimed): after a layout-change event that read layout N from a
\* valid file while the slider is at t, the figure shows the frame of t built
\* from N alone: every cell has the value and the record of the sensor N names
\* at its flat position, the cells N does not cover or whose sensor is absent
\* are not-a-number with null identity, so nothing of the previous layout stays.
C5_LayoutChangeShowsNewLayout ==
    (LayoutChangeRan /\ last_event.file.status = "ok") =>
        LET N == last_event.file.sensor_order
            mpl == env.sensors_per_module_list
        IN  /\ frame.heat # None
            /\ frame.heat.t_index = slider_val
            /\ \A c \in ClaimCells(mpl) :
                LET pos == ClaimFlatPos(mpl, c)
                    rows == IF pos < Len(N)
                            THEN ClaimRowsOfSensor(env.sensor_identifiers, N[pos + 1])
                            ELSE {}
                IN  IF rows = {}
                    THEN /\ IsNaN(ClaimValue(frame.heat, c))
                         /\ ClaimIdent(frame.heat, c) = None
                    ELSE /\ ClaimValue(frame.heat, c)
                                = env.data[SetMin(rows)][slider_val + 1]
                         /\ ClaimIdent(frame.heat, c) = env.sensor_identifiers[SetMin(rows)]

\* C6 (as claimed): a layout-change event whose file is missing, is no valid
\* JSON or has no sensor_order raises nothing out of the handler, leaves the
\* active layout as it was, and the session goes on.
C6_FailedLoadKeepsLayout ==
    [][(/\ phase = "running"
        /\ last_event'.handler \in LayoutChangeHandlers
        /\ last_event'.file.status # "ok") =>
            (/\ last_event'.raised = "no"
             /\ phase' = "running"
             /\ ActiveOrder' = ActiveOrder)]_vars

\* the cells of layer L whose value is a number
ClaimNumberCells(result, modulesPerLayer, L) ==
    {c \in ClaimCells(modulesPerLayer) : c[1] = L /\ ~IsNaN(ClaimValue(result, c))}

RECURSIVE ClaimSum(_, _, _)
\* the sum of value^power over a set of cells
ClaimSum(result, cells, power) ==
    IF cells = {} THEN 0
    ELSE LET c == CHOOSE x \in cells : TRUE
             v == ClaimValue(result, c)[1]
         IN  (IF power = 2 THEN v * v ELSE v) + ClaimSum(result, cells \ {c}, power)

\* the five statistics of layer L are those of the given count, sum, sum of
\* squares, largest and smallest value
ClaimStatsAre(st, l, n, sum, squares, hi, lo) ==
    /\ ~IsNaN(st.mean_temperatures[l])
    /\ st.mean_temperatures[l].num * n = sum * st.mean_temperatures[l].den
    /\ st.max_temperatures[l] = Fl(hi)
    /\ st.min_temperatures[l] = Fl(lo)
    /\ st.temperature_ranges[l] = Fl(hi - lo)
    /\ ~IsNaN(st.std_devs[l])
    /\ st.std_devs[l].sqrt_of.num * (n * n)
           = (n * squares - sum * sum) * st.std_devs[l].sqrt_of.den

\* the five statistics of layer L are all not-a-number
ClaimStatsNaN(st, l) ==
    /\ IsNaN(st.mean_temperatures[l])
    /\ IsNaN(st.max_temperatures[l])
    /\ IsNaN(st.min_temperatures[l])
    /\ IsNaN(st.temperature_ranges[l])
    /\ IsNaN(st.std_devs[l])

ClaimLayerStats(result, modulesPerLayer, L, cells) ==
    IF cells = {} THEN ClaimStatsNaN(result.statistics, L + 1)
    ELSE ClaimStatsAre(result.statistics, L + 1, Cardinality(cells),
                       ClaimSum(result, cells, 1), ClaimSum(result, cells, 2),
                       SetMax({ClaimValue(result, c)[1] : c \in cells}),
                       SetMin({ClaimValue(result, c)[1] : c \in cells}))

\* C11: for a layer whose grid is entirely not-a-number the mean, max, min,
\* range and standard deviation are each not-a-number and nothing is raised;
\* for a layer that has data they are the statistics of its own cells that
\* are numbers, whatever the other layers hold.
C11_AllNaNLayerStatistics ==
    PblCalled =>
        /\ pbl_result.raised = "no"
        /\ \A L \in 0..(pbl_args.strings_count - 1) :
              ClaimLayerStats(pbl_result, pbl_args.sensors_per_module_list, L,
                  ClaimNumberCells(pbl_result, pbl_args.sensors_per_module_list, L))

C11_Witness ==
    /\ PblCalled
    /\ pbl_args.sensors_per_module_list = <<1, 1>>
    /\ Len(pbl_args.custom_sensor_order) = 16
    /\ pbl_result.raised = "no"
    /\ ClaimNumberCells(pbl_result, <<1, 1>>, 1) = {}
    /\ ClaimStatsNaN(pbl_result.statistics, 2)
    /\ IsNaN(ClaimValue(pbl_result, <<0, 0, 1>>))
    /\ ~IsNaN(ClaimValue(pbl_result, <<0, 0, 0>>))
    /\ ~IsNaN(pbl_result.statistics.mean_temperatures[1])

\* the time index is one of the columns of the raw matrix
ClaimValidTimeIndex(data, t) == 0 <= t /\ t < Shape1(data)

\* C12: with a valid time index and a raw matrix that has one row per sensor
\* record, frame aggregation raises nothing whatever the layout holds (no
\* entry, unknown SensorIds, a wrong length, repeated entries, list entries);
\* every grid has its full shape, and when no entry names a recorded sensor
\* every cell is not-a-number with null identity.
C12_AggregationNeverFails ==
    (/\ PblCalled
     /\ ClaimValidTimeIndex(pbl_args.data, pbl_args.t_index)
     /\ Len(pbl_args.data) = Len(pbl_args.sensor_identifiers)) =>
        /\ pbl_result.raised = "no"
        /\ Len(pbl_result.reordered_layers) = pbl_args.strings_count
        /\ \A c \in ClaimCells(pbl_args.sensors_per_module_list) :
              <<c[2], c[3]>> \in DOMAIN pbl_result.reordered_layers[c[1] + 1]
        /\ (\A p \in DOMAIN pbl_args.custom_sensor_order :
                ClaimRowsNamed(pbl_args.sensor_identifiers,
                               pbl_args.custom_sensor_order[p]) = {})
              => \A c \in ClaimCells(pbl_args.sensors_per_module_list) :
                    IsNaN(ClaimValue(pbl_result, c)) /\ ClaimIdent(pbl_result, c) = None

\* a layout that is too long, holds repeated and unknown SensorIds, and a
\* frame was returned
C12_Witness ==
    /\ PblCalled
    /\ pbl_result.raised = "no"
    /\ pbl_args.sensors_per_module_list = <<1>>
    /\ Len(pbl_args.custom_sensor_order) = 18
    /\ pbl_args.custom_sensor_order[1] = pbl_args.custom_sensor_order[6]
    /\ ClaimRowsNamed(pbl_args.sensor_identifiers, pbl_args.custom_sensor_order[5]) = {}
    /\ ClaimRowsNamed(pbl_args.sensor_identifiers, pbl_args.custom_sensor_order[1]) # {}

\* the worst case: a layout of list entries, none of which names a sensor
C12_WitnessAllNaN ==
    /\ PblCalled
    /\ pbl_result.raised = "no"
    /\ Len(pbl_args.custom_sensor_order) = 16
    /\ pbl_args.custom_sensor_order[1].kind = "list"
    /\ \A c \in ClaimCells(pbl_args.sensors_per_module_list) : IsNaN(ClaimValue(pbl_result, c))

\* the time index of a running session is one of its frames, and it is the
\* index the frame on screen was aggregated for
ClaimIndexInRange ==
    /\ 0 <= slider_val
    /\ slider_val < env.total_frames
    /\ frame.heat.t_index = slider_val

\* C13: whatever the sequence of ticks, play/pause, fast-forward, rewind,
\* go-to-max and layout-change events, the time index passed to frame
\* aggregation is in 0 .. total_frames - 1; a tick at the last frame goes to
\* 0, fast-forward stops at total_frames - 1 and rewind stops at 0.
C13_TimeIndexInRange ==
    [][phase' = "running" =>
        /\ env'.total_frames >= 1
        /\ ClaimIndexInRange'
        /\ (phase = "running" /\ last_event'.handler = "animate" /\ playing
                /\ slider_val = env.total_frames - 1) => slider_val' = 0
        /\ (phase = "running" /\ last_event'.handler = "fast_forward"
                /\ slider_val + StepFrames > env.total_frames - 1)
               => slider_val' = env.total_frames - 1
        /\ (phase = "running" /\ last_event'.handler = "rewind"
                /\ slider_val - StepFrames < 0) => slider_val' = 0]_vars

\* a tick while playing has just moved the index to 0: it came from the last
\* frame
C13_Witness ==
    /\ phase = "running"
    /\ last_event.handler = "animate"
    /\ last_event.raised = "no"
    /\ playing
    /\ env.total_frames > 1
    /\ slider_val = 0
    /\ frame.heat.t_index = 0

\* the layers an activation has built so far were read from the list its
\* frame is aggregated from, as that list is now
ClaimOneLayout(a) ==
    \A k \in DOMAIN a.seen :
        a.seen[k] = LayerSensorIndices(lists[a.ref], env.sensors_per_module_list, k - 1)

\* every frame in progress has read one layout
ClaimStackOneLayout == \A d \in DOMAIN stack : ClaimOneLayout(stack[d])

\* a handler returned from update in this step
ClaimFrameCompleted == Len(stack') < Len(stack)

\* C14: a frame computation reads one single layout from its first layer to
\* its last: while it runs the active layout is not swapped nor changed, the
\* slices it has read are those of the layout it ends with, and the frame it
\* shows is the frame of that layout alone.
C14_FrameSeesOneLayout ==
    [][/\ ClaimStackOneLayout'
       /\ (order_ref' # order_ref \/ lists' # lists) => stack = <<>>
       /\ (ClaimFrameCompleted /\ last_event'.raised = "no") =>
            /\ stack[Len(stack)].ref = order_ref'
            /\ frame'.heat = UpdateHeat(slider_val',
                                Frames[UpdateCall(env', ActiveOrder', slider_val')])]_vars

\* a tick's frame is in progress with its first layer built, and a layout
\* change has arrived and waits for the handler to return
C14_Witness ==
    /\ Len(stack) = 1
    /\ stack[1].handler = "animate"
    /\ stack[1].layer = 1
    /\ pending # <<>>
    /\ pending[1].widget \in {"radio", "radio_layout"}
    /\ pending[1].file.status = "ok"
    /\ pending[1].file.sensor_order # lists[stack[1].ref]

\* C15: a layout change never changes the contents of a list that exists: the
\* list the caller passed into the session holds after the change what it
\* held before.  (The handlers that rebind custom_sensor_order fill the slot
\* "loaded" with a new list; only a slice assignment changes a list.)
C15_LayoutChangeMutatesNothing ==
    [][(phase = "running" /\ last_event'.handler \in LayoutChangeHandlers)
          => lists'.caller = lists.caller]_vars

\* the implementations whose set-up fills and trims the coolant series
ClaimSetUpImplementations == {"interface", "interface_modified", "thermal_dynamics_HVB"}

\* after is the series before, or not-a-number samples as long as the raw
\* matrix when before is absent or empty, cut to total_frames
ClaimFilledAndTrimmed(before, after, data_length, total_frames) ==
    /\ Len(after) = total_frames
    /\ total_frames <= (IF Len(before) = 0 THEN data_length ELSE Len(before))
    /\ \A t \in 1..total_frames :
          after[t] = (IF Len(before) = 0 THEN NaN ELSE before[t])

\* the smallest of the lengths of the raw matrix and the series given
ClaimMinLength(args) ==
    SetMin({Shape1(args.data)}
           \cup {Len(x) : x \in {y \in {args.inlet_temp, args.outlet_temp, args.flow} :
                                    Len(y) > 0}})

\* C16: the set-up replaces every absent or empty coolant series by
\* not-a-number samples as long as the raw matrix, then cuts the columns of
\* the raw matrix and the three series to the smallest of their lengths:
\* afterwards all four have the length total_frames.
C16_SetUpFillsAndTrims ==
    [][(phase = "called" /\ impl \in ClaimSetUpImplementations) =>
        /\ env'.raised = "no"
        /\ env'.total_frames = ClaimMinLength(env)
        /\ Shape1(env'.data) = env'.total_frames
        /\ \A r \in DOMAIN env.data :
              env'.data[r] = SubSeq(env.data[r], 1, env'.total_frames)
        /\ ClaimFilledAndTrimmed(env.inlet_temp, env'.inlet_temp,
                                 Shape1(env.data), env'.total_frames)
        /\ ClaimFilledAndTrimmed(env.outlet_temp, env'.outlet_temp,
                                 Shape1(env.data), env'.total_frames)
        /\ ClaimFilledAndTrimmed(env.flow, env'.flow,
                                 Shape1(env.data), env'.total_frames)]_vars

\* the nearest index that is a column of the raw matrix
ClaimClamped(data, t) == Max(0, Min(Shape1(data) - 1, t))

\* C17: called with a time index that is no column of the raw matrix (too
\* large or negative), frame aggregation raises nothing and returns the frame
\* of the index clamped into 0 .. columnCount - 1.
C17_OutOfRangeIndexClamped ==
    (PblCalled /\ ~ClaimValidTimeIndex(pbl_args.data, pbl_args.t_index)) =>
        /\ pbl_result.raised = "no"
        /\ pbl_result =
              plot_battery_layout(pbl_args.data, pbl_args.sensor_identifiers,
                  pbl_args.sensors_per_module_list, pbl_args.strings_count,
                  ClaimClamped(pbl_args.data, pbl_args.t_index),
                  pbl_args.custom_sensor_order)

\* a handler moved the time index and left the layout as it was
ClaimTimeIndexChange ==
    /\ phase = "running"
    /\ slider_val' # slider_val
    /\ order_ref' = order_ref
    /\ lists' = lists

\* C18: the missing-sensor and layout-length warnings are printed once per
\* layout resolution and never while a frame is computed: a change of the
\* time index with the layout unchanged prints no warning.
C18_NoWarningsDuringFrames ==
    [][ClaimTimeIndexChange => frame'.printed = {}]_vars

\* the last call named a cache file, the file existed and no refresh was forced
ClaimCacheCase ==
    /\ cache_call # Pending
    /\ cache_call.call.cache_filename # Absent
    /\ cache_call.cache.exists
    /\ cache_call.call.force_refresh # "True"

\* the producer was run again and the cache file holds what it returned
ClaimInvalidated ==
    /\ cache_call.outcome.producer_called
    /\ cache_call.outcome.cache_written
    /\ cache_fs.cache.exists
    /\ cache_fs.cache.content = cache_call.outcome.returned

\* the pickled value was returned, nothing was produced or written
ClaimCachedReturned ==
    /\ cache_call.outcome.raised = "no"
    /\ cache_call.outcome.returned = cache_call.cache.content
    /\ ~cache_call.outcome.producer_called
    /\ ~cache_call.outcome.cache_written
    /\ cache_fs.cache = cache_call.cache

ClaimSourceSeen ==
    /\ cache_call.call.func = "extract_inlet_outlet_flow"
    /\ cache_call.source.exists

ClaimFrameAtSlider ==
    IF impl = "thermal_dynamics_HVB"
    THEN FramesHVB[UpdateCall(env, ActiveOrder, slider_val)]
    ELSE Frames[UpdateCall(env, ActiveOrder, slider_val)]

\* the step is a tick of the timer in a running session
ClaimTick == phase = "running" /\ last_event'.handler = "animate"

\* C20: the play flag starts false and only the play/pause button flips it.
\* A timer tick with the flag true moves the time index on by exactly 1, or
\* to 0 from total_frames - 1, and the frame of the new index is computed;
\* a tick with the flag false changes neither the time index nor the active
\* layout and computes nothing.
C20_PlayFlagAndTick ==
    /\ [](phase # "running" => ~playing)
    /\ [][/\ (phase # "running" /\ phase' = "running") => ~playing'
          /\ playing' # playing => (phase = "running" /\ last_event'.handler = "toggle_play")
          /\ (ClaimTick /\ playing) =>
                /\ slider_val' = IF slider_val = env.total_frames - 1 THEN 0 ELSE slider_val + 1
                /\ last_event'.raised # "no" => (impl = "interface_modified" /\ MidTextRaises(env, slider_val'))
                /\ frame'.heat = UpdateHeat(slider_val', ClaimFrameAtSlider')
                /\ ActiveOrder' = ActiveOrder
          /\ (ClaimTick /\ ~playing) =>
                /\ slider_val' = slider_val
                /\ ActiveOrder' = ActiveOrder
                /\ order_ref' = order_ref
                /\ frame' = frame]_vars

\* a tick while playing has just moved the index on by one and the heat maps
\* show the frame of that index
C20_Witness ==
    /\ phase = "running"
    /\ last_event.handler = "animate"
    /\ playing
    /\ slider_val >= 1
    /\ frame.heat = UpdateHeat(slider_val, ClaimFrameAtSlider)

\* a tick while paused has left the figure at the slider's index
C20_WitnessPaused ==
    /\ phase = "running"
    /\ last_event.handler = "animate"
    /\ ~playing
    /\ frame.heat.t_index = slider_val

\* a frame computation starts in this step
ClaimFrameStarts == Len(stack') > Len(stack)

\* C21: the frame update is never re-entered: whatever way slider changes,
\* button clicks, layout changes and timer ticks arrive, a frame computation
\* starts only when no other is in progress, and an event starts at most one.
C21_UpdateNeverReentered ==
    [][/\ Len(stack') <= 1
       /\ ClaimFrameStarts =>
             /\ stack = <<>>
             /\ Len(stack') = 1
             /\ pending # <<>>
             /\ pending' = Tail(pending)
       /\ (stack # <<>> /\ pending' = pending) => Len(stack') <= Len(stack)]_vars

\* the frame of a slider change is in progress and the next event, a timer
\* tick with the play flag set, waits for it to return
C21_Witness ==
    /\ Len(stack) = 1
    /\ stack[1].handler = "update"
    /\ stack[1].layer >= 1
    /\ playing
    /\ pending # <<>>
    /\ pending[1].widget = "timer"

\* the rows of layer L in storage order that the matrix has
ClaimLayerRows(data, modulesPerLayer, L) ==
    {r \in 0..(Len(data) - 1) :
        /\ ClaimOffset(modulesPerLayer, L) <= r
        /\ r < ClaimOffset(modulesPerLayer, L) + 16 * modulesPerLayer[L + 1]}

RECURSIVE ClaimRowSum(_, _, _)
\* the sum of the samples at column t over a set of rows
ClaimRowSum(data, rows, t) ==
    IF rows = {} THEN 0
    ELSE LET r == CHOOSE x \in rows : TRUE
         IN  data[r + 1][t + 1][1] + ClaimRowSum(data, rows \ {r}, t)

\* m is the mean at column t of the given rows that hold a number there
ClaimIsMeanOf(m, data, rows, t) ==
    IF rows = {} THEN IsNaN(m)
    ELSE /\ ~IsNaN(m)
         /\ m.num * Cardinality(rows) = ClaimRowSum(data, rows, t) * m.den

\* the layer means of the session are those of the raw rows of each layer
ClaimLayerMeans ==
    \A L \in 0..(env.strings_count - 1), t \in 0..(env.total_frames - 1) :
        ClaimIsMeanOf(env.layer_mean_temps[L + 1][t + 1], env.data,
            {r \in ClaimLayerRows(env.data, env.sensors_per_module_list, L) :
                ~IsNaN(env.data[r + 1][t + 1])}, t)

\* C22: the layer-mean time series of layer L at time t is the mean, ignoring
\* not-a-number, of the raw matrix rows 16 * sum(modulesPerLayer[0..L-1]) up
\* to (not including) that plus 16 * modulesPerLayer[L] at column t; it is
\* computed once at set-up from the storage order, whatever the layout is,
\* and no layout change (no event at all) changes it.
C22_LayerMeansFromStorageOrder ==
    /\ [](phase = "running" => ClaimLayerMeans)
    /\ [][phase = "running" => env'.layer_mean_temps = env.layer_mean_temps]_vars

\* a recording with rows in both layers, after a layout change that put
\* another layout in place: the second layer has a mean, and at some time it
\* is not the mean of the first
C22_Witness ==
    /\ LayoutChangeRan
    /\ ActiveOrder # LayoutOf(TotalSpan(env.sensors_per_module_list), 0, "tuple")
    /\ Len(env.data) > 16
    /\ \E t \in 1..env.total_frames :
          /\ ~IsNaN(env.layer_mean_temps[2][t])
          /\ env.layer_mean_temps[2][t] # env.layer_mean_temps[1][t]
          /\ \E r \in 1..16 : IsNaN(env.data[r][t])

\* the samples of column t that are numbers
ClaimSamplesAt(data, t) ==
    {data[r][t + 1][1] : r \in {x \in DOMAIN data : ~IsNaN(data[x][t + 1])}}

\* the overall cell-temperature range at time t
ClaimOverallRange(data, t) ==
    IF ClaimSamplesAt(data, t) = {} THEN NaN
    ELSE Fl(SetMax(ClaimSamplesAt(data, t)) - SetMin(ClaimSamplesAt(data, t)))

\* v is the difference of the largest and the smallest of the layer means at
\* column t (counted from 1) that are numbers
ClaimIsLayerRange(v, layer_means, t) ==
    LET M == {layer_means[l][t] : l \in {x \in DOMAIN layer_means : ~IsNaN(layer_means[x][t])}}
    IN  IF M = {} THEN IsNaN(v)
        ELSE /\ ~IsNaN(v)
             /\ \E hi \in M, lo \in M :
                   /\ \A m \in M : /\ m.num * hi.den <= hi.num * m.den
                                    /\ lo.num * m.den <= m.num * lo.den
                   /\ v.num * (hi.den * lo.den)
                         = (hi.num * lo.den - lo.num * hi.den) * v.den

\* both trend lines hold the samples of the time indices 0 .. t, in order
ClaimTrendUpTo(t) ==
    /\ frame.trend.overall = [k \in 1..(t + 1) |-> ClaimOverallRange(env.data, k - 1)]
    /\ Len(frame.trend.layer_mean) = t + 1
    /\ \A k \in 1..(t + 1) :
          ClaimIsLayerRange(frame.trend.layer_mean[k], env.layer_mean_temps, k)

ClaimAcceptedPositions ==
    {k \in DOMAIN ex_args.channels :
        /\ ex_args.channels[k].name.base \in {"moduleTemperature", "MODULETEMPERATURE"}
        /\ ex_args.channels[k].name.tail = ""
        /\ ex_args.channels[k].kind \in {"f", "i", "u"}}

\* The position in the file of the j-th accepted channel.
ClaimPositionOf(j) ==
    CHOOSE k \in ClaimAcceptedPositions :
        Cardinality({i \in ClaimAcceptedPositions : i <= k}) = j

\* The length of the shortest accepted channel.
ClaimShortest ==
    SetMin({Len(ex_args.channels[k].samples) : k \in ClaimAcceptedPositions})

ClaimExtracted ==
    /\ ex_args # Pending
    /\ ex_args.source = "mf4"
    /\ ex_result # Pending

\* C24: extract_temperatures_from_mf4 returns as many rows as records; row k
\* holds the samples of record k, the records being the accepted channels in
\* the order of iteration; every row has the length of the shortest accepted
\* channel; channels whose name does not match or whose samples are not
\* numbers give neither a row nor a record; with no accepted channel the call
\* raises.
C24_ExtractedRowsFollowRecords ==
    ClaimExtracted =>
        IF ClaimAcceptedPositions = {}
        THEN ex_result.raised = "RuntimeError"
        ELSE /\ ex_result.raised = "no"
             /\ Len(ex_result.temps) = Len(ex_result.sensor_ids)
             /\ Len(ex_result.sensor_ids) = Cardinality(ClaimAcceptedPositions)
             /\ \A j \in DOMAIN ex_result.sensor_ids :
                    /\ ex_result.sensor_ids[j].name = ex_args.channels[ClaimPositionOf(j)].name
                    /\ Len(ex_result.temps[j]) = ClaimShortest
                    /\ \A t \in 1..ClaimShortest :
                           ex_result.temps[j][t] = ex_args.channels[ClaimPositionOf(j)].samples[t]

\* A file of three channels, one of them rejected, whose two accepted
\* channels have different lengths and come with the larger sensor number
\* first.
C24_Witness ==
    /\ ClaimExtracted
    /\ Len(ex_args.channels) = 3
    /\ ex_result.raised = "no"
    /\ Len(ex_result.sensor_ids) = 2
    /\ ex_result.sensor_ids[1].id.num > ex_result.sensor_ids[2].id.num
    /\ Len(ex_args.channels[ClaimPositionOf(1)].samples)
         # Len(ex_args.channels[ClaimPositionOf(2)].samples)
    /\ ClaimShortest > 0

\* A file none of whose channels is accepted.
C24_WitnessRaises ==
    /\ ClaimExtracted
    /\ Len(ex_args.channels) = 3
    /\ ex_result.raised = "RuntimeError"

\* The raw matrix and the record list of the session do not fit: the number
\* of rows differs from the number of records.
ClaimStructuralMismatch ==
    Len(env.data) # Len(env.sensor_identifiers)

\* C25: a session whose raw matrix has not as many rows as there are sensor
\* records fails in the set-up: it never comes to run.
C25_MismatchFailsAtSetUp ==
    (phase # "called" /\ ClaimStructuralMismatch) => phase = "failed"

\* A session with more records than rows in which a frame computation after
\* the set-up is the first to fail.
C25_LateFailure ==
    /\ phase = "running"
    /\ ClaimStructuralMismatch
    /\ last_event.handler # "interactive_battery_layout"
    /\ last_event.raised = "IndexError"

\* The layout file the last layout-change handler read names only sensors
\* that have a record.
ClaimFileNamesPresentSensors ==
    /\ LayoutChangeRan
    /\ last_event.file.status = "ok"
    /\ last_event.file.sensor_order # <<>>
    /\ \A p \in DOMAIN last_event.file.sensor_order :
           ClaimRowsOfSensor(env.sensor_identifiers, last_event.file.sensor_order[p]) # {}

\* C26: after a layout-change handler loaded a layout file whose entries all
\* name sensors of the data, every grid position the layout covers shows the
\* record of a sensor: its identity is not null.
C26_LoadedEntriesResolve ==
    ClaimFileNamesPresentSensors =>
        /\ frame.heat # None
        /\ \A c \in ClaimCells(env.sensors_per_module_list) :
               ClaimFlatPos(env.sensors_per_module_list, c) < Len(last_event.file.sensor_order)
                   => ClaimIdent(frame.heat, c) # None

\* The same file read by a handler that makes the entries tuples: the covered
\* positions have an identity.
C26_ResolvedByTupleHandlers ==
    /\ ClaimFileNamesPresentSensors
    /\ last_event.handler \in {"update_layout", "_layout_change"}
    /\ \A c \in ClaimCells(env.sensors_per_module_list) :
           ClaimFlatPos(env.sensors_per_module_list, c) < Len(last_event.file.sensor_order)
               => ClaimIdent(frame.heat, c) # None

\* The versions that write the coolant texts.
ClaimCoolantImplementations ==
    {"interface", "interface_modified", "thermal_dynamics_HVB"}

\* The last event computed the frame of the slider's index.
ClaimUpdateRan ==
    /\ phase = "running"
    /\ impl \in ClaimCoolantImplementations
    /\ last_event.raised \in {"no", "ValueError"}
    /\ frame.heat # None
    /\ frame.heat.t_index = slider_val

\* The coolant values at the slider's index that are not-a-number.
ClaimUnavailable ==
    {r \in {"inlet", "outlet", "flow"} :
        IsNaN((CASE r = "inlet" -> env.inlet_temp
                 [] r = "outlet" -> env.outlet_temp
                 [] r = "flow" -> env.flow)[slider_val + 1])}

\* C27: a frame update at an index where a coolant value is not-a-number ends
\* without an exception and shows N/A for that value and for the heat flux;
\* calculation_heat_flux is invoked only when flow, inlet and outlet at the
\* index are all numbers.
C27_UnavailableCoolantShownAsNA ==
    ClaimUpdateRan =>
        /\ ClaimUnavailable # {} =>
             /\ last_event.raised = "no"
             /\ frame.coolant.heat = "N/A"
             /\ ~frame.coolant.called
        /\ "inlet" \in ClaimUnavailable => frame.coolant.inlet = "N/A"
        /\ "outlet" \in ClaimUnavailable => frame.coolant.outlet = "N/A"
        /\ "flow" \in ClaimUnavailable => frame.coolant.flow = "N/A"

\* A frame of interface.py at an index where inlet, outlet and flow are all
\* not-a-number: four times N/A.
C27_AllUnavailable ==
    /\ ClaimUpdateRan
    /\ impl = "interface"
    /\ ClaimUnavailable = {"inlet", "outlet", "flow"}
    /\ frame.coolant = CoolantShown("N/A", "N/A", "N/A", "N/A", FALSE)

\* The figure shows the frame of index t.
ClaimDisplayed(t) ==
    /\ phase = "running"
    /\ slider_val = t
    /\ frame.heat = UpdateHeat(t, ClaimFrameAtSlider)

\* The session plays.
ClaimPlaying == phase = "running" /\ playing

\* C28: while the play flag is true and the timer keeps ticking with no other
\* event, a tick at index t shows index (t + 1) mod total_frames, so after k
\* ticks index (t + k) mod total_frames; where the timer is kept ticking,
\* every index of 0 .. total_frames - 1 is shown again and again.
C28_PlayingShowsEveryIndex ==
    /\ [][(ClaimPlaying /\ ClaimTick) =>
             /\ slider_val' = (slider_val + 1) % env.total_frames
             /\ frame'.heat = UpdateHeat(slider_val', ClaimFrameAtSlider')
             /\ playing']_vars
    /\ \A t \in 0..(SessionFrames - 1) :
           [](ClaimPlaying /\ KeepsAnimation(impl) /\ t < env.total_frames
                 => <>ClaimDisplayed(t))

\* A tick at the last index has brought the session back to index 0.
C28_Witness ==
    /\ ClaimPlaying
    /\ last_event.handler = "animate"
    /\ ClaimDisplayed(0)

\* Both versions of plot_battery_layout have been called with the same
\* arguments at a valid time index.
ClaimBothCalled ==
    /\ pbl_args # Pending
    /\ pbl_result # Pending
    /\ hvb_result # Pending
    /\ ClaimValidTimeIndex(pbl_args.data, pbl_args.t_index)

ClaimFoundSeries(role) ==
    IF \E k \in DOMAIN ex_args.db[role] : ex_args.db[role][k].status = "rows"
    THEN ex_args.db[role][SetMin({k \in DOMAIN ex_args.db[role] :
                                     ex_args.db[role][k].status = "rows"})].values
    ELSE <<>>

\* Both versions of extract_inlet_outlet_flow have returned or raised.
ClaimBothExtracted ==
    /\ ex_args # Pending
    /\ ex_args.source = "db"
    /\ ex_result # Pending
    /\ ex_result.monolith # Pending

\* C30: whatever roles are found and however long the found series are,
\* extract_inlet_outlet_flow of data_extraction.py raises nothing and returns
\* what the version of thermal_dynamics_HVB.py returns: for each role the
\* found series, or an empty sequence when the role has no data.
C30_BothExtractorsReturnTheSame ==
    ClaimBothExtracted =>
        /\ ex_result.modular.raised = "no"
        /\ ex_result.modular = ex_result.monolith
        /\ \A r \in Roles : ex_result.modular[r] = ClaimFoundSeries(r)

\* The monolith alone returns the found series for every database.
C30_MonolithReturnsFound ==
    ClaimBothExtracted =>
        /\ ex_result.monolith.raised = "no"
        /\ \A r \in Roles : ex_result.monolith[r] = ClaimFoundSeries(r)

====
